---- MODULE Spec2Model ----
(***************************************************************************)
(* Model of the qfix-mapper core: the action-recommendation merge          *)
(* (api.py, _inject_keyword_actions), the material resolver and the        *)
(* clothing-type resolver (mapping.py) together with the admin mutations   *)
(* of their rule tables (api.py, add_mapping and remap_apply).             *)
(*                                                                         *)
(* Python strings that are searched with the "in" operator are modelled as *)
(* sequences of one-character strings, so that substring matching is the   *)
(* real thing ("zip" occurs in "zipper", "shorts" in "badshorts").  Names  *)
(* that are only compared for equality stay TLA+ strings.  An optional     *)
(* value (Python None) is the empty sequence, a present value v is <<v>>.  *)
(***************************************************************************)
EXTENDS Integers, Sequences, FiniteSets, TLC

VARIABLES
  top_actions,      \* merge input: category -> AI-ranked pool of actions
  product_text,     \* merge input: lowercased product text
  qfix_services,    \* merge input: service categories of the (type, material) pair
  merged,           \* merge output, <<>> until the call has returned
  merge_pc,         \* "call" before the merge runs, "done" after it, "idle" without one
  MATERIAL_MAP,                      \* material name -> canonical material
  BRAND_MATERIAL_OVERRIDES,          \* brand -> material name -> canonical material
  CLOTHING_TYPE_MAP,                 \* first path segment -> canonical clothing type
  BRAND_CLOTHING_TYPE_OVERRIDES,     \* brand -> path key -> canonical clothing type
  BRAND_KEYWORD_CLOTHING_OVERRIDES,  \* brand -> ordered (keyword, type) pairs
  KEYWORD_CLOTHING_MAP,              \* _KEYWORD_CLOTHING_MAP: ordered (keyword, type) pairs
  material_call,    \* <<>> or <<the last map_material call since the last admin request>>
  clothing_call,    \* <<>> or <<the last map_clothing_type call since then>>
  product_call,     \* <<>> or <<the last classification call since then>>
  admin_call,       \* <<>> or <<the admin request just answered, with its answer>>
  apply_pc,         \* <<>> or <<the remap_apply request in progress, with its position>>
  reader,           \* <<>> or <<the map_clothing_type call in progress in another thread>>
  qfix_items,           \* _qfix_items: L3 id -> item
  qfix_subitems,        \* _qfix_subitems: L4 id -> subitem
  qfix_services_cache,  \* _qfix_services: <<L3 id, L4 id>> -> service categories
  qfix_catalog_loaded,  \* _qfix_catalog_loaded
  loader,               \* thread -> its position in _load_qfix_catalog / enrich_qfix
  db,               \* rows of products_unified whose QFix columns are committed
  txn,              \* rows updated in the open transaction of write_conn
  remap_job,        \* the remap_run request in progress, with its position
  rankings_store,   \* qfix_action_rankings: <<clothing_type_id, material_id>> -> rankings
  rank_job          \* the remap_rank_actions request in progress, with its position

vars ==
  <<top_actions, product_text, qfix_services, merged, merge_pc, MATERIAL_MAP,
    BRAND_MATERIAL_OVERRIDES, CLOTHING_TYPE_MAP, BRAND_CLOTHING_TYPE_OVERRIDES,
    BRAND_KEYWORD_CLOTHING_OVERRIDES, KEYWORD_CLOTHING_MAP, material_call, clothing_call,
    product_call, admin_call, apply_pc, reader, qfix_items, qfix_subitems,
    qfix_services_cache, qfix_catalog_loaded, loader, db, txn, remap_job,
    rankings_store, rank_job>>

(***************************************************************************)
(* Generic helpers                                                         *)
(***************************************************************************)
Range(s) == {s[i] : i \in 1..Len(s)}

MinOf(S) == CHOOSE x \in S : \A y \in S : x <= y

MaxOf(S) == CHOOSE x \in S : \A y \in S : x >= y

\* Python s[:n]
Prefix(s, n) == SubSeq(s, 1, IF Len(s) < n THEN Len(s) ELSE n)

\* Python "kw in text" on strings
Contains(text, kw) ==
  \E i \in 1..(Len(text) - Len(kw) + 1) : SubSeq(text, i, i + Len(kw) - 1) = kw

\* Python any(kw in text for kw in kws)
AnyKeywordIn(kws, text) == \E k \in 1..Len(kws) : Contains(text, kws[k])

RECURSIVE Concat(_)
\* concatenation of a sequence of sequences (list.extend in a loop)
Concat(ss) == IF ss = <<>> THEN <<>> ELSE Head(ss) \o Concat(Tail(ss))

(***************************************************************************)
(* api.py: keyword rules of the merge                                      *)
(***************************************************************************)
MAX_INJECTED_PER_RULE == 2

KEYWORD_ACTION_RULES ==
  <<
  [keywords |-> <<<<"d", "r", "a", "g", "k", "e", "d", "j", "a">>, <<"z", "i", "p", "p", "e", "r">>, <<"b", "l", "i", "x", "t", "l", "å", "s">>, <<"z", "i", "p">>>>,
   actions |-> <<
      [name |-> "Replace zipper", default |-> TRUE,
       sub_keywords |-> <<>>],
      [name |-> "Replace main zipper", default |-> FALSE,
       sub_keywords |-> <<<<"j", "a", "c", "k", "a">>, <<"j", "a", "c", "k", "e", "t">>, <<"c", "o", "a", "t">>, <<"k", "a", "p", "p", "a">>, <<"r", "o", "c", "k">>>>],
      [name |-> "Replace zipper slider", default |-> FALSE,
       sub_keywords |-> <<<<"s", "l", "i", "d", "e", "r">>, <<"d", "r", "a", "g", "a", "r", "e">>, <<"r", "i", "t", "s">>>>] >>,
   category |-> "repair"],
  [keywords |-> <<<<"k", "n", "a", "p", "p">>, <<"k", "n", "a", "p", "p", "a", "r">>, <<"b", "u", "t", "t", "o", "n">>, <<"b", "u", "t", "t", "o", "n", "s">>>>,
   actions |-> <<
      [name |-> "Replace button", default |-> TRUE,
       sub_keywords |-> <<>>],
      [name |-> "Replace snap button", default |-> FALSE,
       sub_keywords |-> <<<<"t", "r", "y", "c", "k">>, <<"s", "n", "a", "p">>, <<"p", "r", "e", "s", "s">>>>],
      [name |-> "Replace jeans button", default |-> FALSE,
       sub_keywords |-> <<<<"j", "e", "a", "n", "s">>, <<"d", "e", "n", "i", "m">>, <<"j", "e", "a", "n">>>>],
      [name |-> "Place new button", default |-> FALSE,
       sub_keywords |-> <<>>],
      [name |-> "Exchange button", default |-> FALSE,
       sub_keywords |-> <<>>] >>,
   category |-> "repair"],
  [keywords |-> <<<<"s", "p", "ä", "n", "n", "e">>, <<"b", "u", "c", "k", "l", "e">>>>,
   actions |-> <<
      [name |-> "Replace buckle", default |-> TRUE,
       sub_keywords |-> <<>>] >>,
   category |-> "repair"],
  [keywords |-> <<<<"f", "o", "d", "e", "r">>, <<"l", "i", "n", "i", "n", "g">>, <<"f", "o", "d", "r", "a", "d">>>>,
   actions |-> <<
      [name |-> "Replace lining", default |-> TRUE,
       sub_keywords |-> <<>>],
      [name |-> "Attach new inner lining", default |-> FALSE,
       sub_keywords |-> <<>>] >>,
   category |-> "repair"],
  [keywords |-> <<<<"r", "e", "s", "å", "r">>, <<"e", "l", "a", "s", "t", "i", "c">>, <<"e", "l", "a", "s", "t", "i", "s", "k">>>>,
   actions |-> <<
      [name |-> "Replace elastic", default |-> TRUE,
       sub_keywords |-> <<>>] >>,
   category |-> "repair"],
  [keywords |-> <<<<"k", "a", "r", "d", "b", "o", "r", "r", "e">>, <<"v", "e", "l", "c", "r", "o">>>>,
   actions |-> <<
      [name |-> "Replace velcro", default |-> TRUE,
       sub_keywords |-> <<>>] >>,
   category |-> "repair"],
  [keywords |-> <<<<"r", "e", "f", "l", "e", "x">>, <<"r", "e", "f", "l", "e", "x", "e", "r">>, <<"r", "e", "f", "l", "e", "c", "t", "i", "v", "e">>>>,
   actions |-> <<
      [name |-> "Replace reflectors", default |-> TRUE,
       sub_keywords |-> <<>>] >>,
   category |-> "repair"],
  [keywords |-> <<<<"l", "ä", "d", "e", "r">>, <<"l", "e", "a", "t", "h", "e", "r">>, <<"s", "k", "i", "n", "n">>, <<"m", "o", "c", "k", "a">>, <<"s", "u", "e", "d", "e">>, <<"n", "u", "b", "u", "c", "k">>>>,
   actions |-> <<
      [name |-> "Clean and condition", default |-> TRUE,
       sub_keywords |-> <<>>] >>,
   category |-> "care"],
  [keywords |-> <<<<"d", "u", "n">>, <<"d", "u", "n", "f", "y", "l", "l", "n", "i", "n", "g">>, <<"d", "o", "w", "n", " ", "f", "i", "l", "l", "e", "d">>, <<"d", "o", "w", "n", " ", "j", "a", "c", "k", "e", "t">>>>,
   actions |-> <<
      [name |-> "Dry cleaning", default |-> TRUE,
       sub_keywords |-> <<>>] >>,
   category |-> "care"],
  [keywords |-> <<<<"i", "m", "p", "r", "e", "g", "n", "e", "r", "a">>, <<"w", "a", "t", "e", "r", "p", "r", "o", "o", "f">>, <<"v", "a", "t", "t", "e", "n", "t", "ä", "t">>, <<"g", "o", "r", "e", "-", "t", "e", "x">>, <<"s", "h", "e", "l", "l">>>>,
   actions |-> <<
      [name |-> "Waterproofing", default |-> TRUE,
       sub_keywords |-> <<>>] >>,
   category |-> "care"]
  >>

KEYWORD_EXCLUSION_RULES ==
  <<
  [keywords |-> <<<<"v", "ä", "s", "t">>, <<"v", "e", "s", "t">>, <<"g", "i", "l", "e", "t">>, <<"b", "o", "d", "y", "w", "a", "r", "m", "e", "r">>>>,
   exclude_actions |-> {"Shorten sleeves", "Lengthen sleeves"},
   category |-> "adjustment"],
  [keywords |-> <<<<"v", "ä", "s", "t">>, <<"v", "e", "s", "t">>, <<"g", "i", "l", "e", "t">>, <<"b", "o", "d", "y", "w", "a", "r", "m", "e", "r">>>>,
   exclude_actions |-> {"Tapering legs", "Shorten legs", "Lengthen legs"},
   category |-> "adjustment"],
  [keywords |-> <<<<"l", "i", "n", "n", "e">>, <<"s", "i", "n", "g", "l", "e", "t">>, <<"t", "a", "n", "k", " ", "t", "o", "p">>, <<"ä", "r", "m", "l", "ö", "s">>, <<"s", "l", "e", "e", "v", "e", "l", "e", "s", "s">>, <<"b", "a", "n", "d", "e", "a", "u">>, <<"t", "u", "b", "t", "o", "p", "p">>>>,
   exclude_actions |-> {"Shorten sleeves", "Lengthen sleeves"},
   category |-> "adjustment"],
  [keywords |-> <<<<"s", "h", "o", "r", "t", "s">>>>,
   exclude_actions |-> {"Tapering legs"},
   category |-> "adjustment"],
  [keywords |-> <<<<"k", "j", "o", "l">>, <<"s", "k", "i", "r", "t">>>>,
   exclude_actions |-> {"Shorten sleeves", "Lengthen sleeves", "Tapering legs"},
   category |-> "adjustment"],
  [keywords |-> <<<<"b", "a", "d", "s", "h", "o", "r", "t", "s">>, <<"s", "w", "i", "m", " ", "s", "h", "o", "r", "t", "s">>, <<"b", "a", "d", "b", "y", "x", "o", "r">>>>,
   exclude_actions |-> {"Replace zipper", "Replace main zipper", "Replace zipper slider"},
   category |-> "repair"],
  [keywords |-> <<<<"b", "a", "d", "s", "h", "o", "r", "t", "s">>, <<"s", "w", "i", "m", " ", "s", "h", "o", "r", "t", "s">>, <<"b", "a", "d", "b", "y", "x", "o", "r">>>>,
   exclude_actions |-> {"Narrow shoulder area", "Shorten sleeves", "Lengthen sleeves", "Shorten length"},
   category |-> "adjustment"],
  [keywords |-> <<<<"b", "i", "k", "i", "n", "i">>, <<"b", "a", "d", "d", "r", "ä", "k", "t">>, <<"s", "w", "i", "m", "s", "u", "i", "t">>, <<"b", "a", "d", "e", "d", "r", "a", "k", "t">>>>,
   exclude_actions |-> {"Shorten sleeves", "Lengthen sleeves", "Tapering legs", "Shorten length"},
   category |-> "adjustment"],
  [keywords |-> <<<<"s", "t", "r", "u", "m", "p", "o", "r">>, <<"s", "o", "c", "k", "s">>, <<"s", "o", "c", "k", "o", "r">>, <<"s", "t", "r", "u", "m", "p", "a">>>>,
   exclude_actions |-> {"Take in waist", "Expand waist", "Take in sides", "Shorten length", "Take in the back", "Narrow shoulder area", "Shorten sleeves", "Lengthen sleeves", "Tapering legs"},
   category |-> "adjustment"],
  [keywords |-> <<<<"s", "t", "r", "u", "m", "p", "b", "y", "x", "a">>, <<"s", "t", "r", "u", "m", "p", "b", "y", "x", "o", "r">>, <<"t", "i", "g", "h", "t", "s">>, <<"p", "a", "n", "t", "y", "h", "o", "s", "e">>>>,
   exclude_actions |-> {"Take in waist", "Expand waist", "Take in sides", "Shorten length", "Take in the back", "Narrow shoulder area", "Shorten sleeves", "Lengthen sleeves", "Tapering legs"},
   category |-> "adjustment"],
  [keywords |-> <<<<"p", "o", "n", "c", "h", "o">>>>,
   exclude_actions |-> {"Shorten sleeves", "Lengthen sleeves"},
   category |-> "adjustment"],
  [keywords |-> <<<<"c", "a", "p", "e">>>>,
   exclude_actions |-> {"Shorten sleeves", "Lengthen sleeves"},
   category |-> "adjustment"],
  [keywords |-> <<<<"l", "e", "g", "g", "i", "n", "g", "s">>>>,
   exclude_actions |-> {"Tapering legs"},
   category |-> "adjustment"],
  [keywords |-> <<<<"l", "e", "g", "g", "i", "n", "g", "s">>>>,
   exclude_actions |-> {"Replace main zipper", "Replace zipper", "Replace zipper slider"},
   category |-> "repair"],
  [keywords |-> <<<<"b", "a", "n", "d", "e", "a", "u">>, <<"t", "u", "b", "t", "o", "p", "p">>, <<"t", "u", "b", "e", " ", "t", "o", "p">>, <<"s", "t", "r", "a", "p", "l", "e", "s", "s">>>>,
   exclude_actions |-> {"Narrow shoulder area"},
   category |-> "adjustment"],
  [keywords |-> <<<<"t", "r", "ä", "n", "i", "n", "g", "s", "t", "i", "g", "h", "t", "s">>, <<"t", "r", "a", "n", "i", "n", "g", "s", "t", "i", "g", "h", "t", "s">>, <<"c", "y", "k", "e", "l", "b", "y", "x", "a">>, <<"c", "y", "k", "e", "l", "b", "y", "x", "o", "r">>, <<"c", "y", "c", "l", "i", "n", "g", " ", "s", "h", "o", "r", "t", "s">>>>,
   exclude_actions |-> {"Shorten sleeves", "Lengthen sleeves", "Narrow shoulder area"},
   category |-> "adjustment"],
  [keywords |-> <<<<"t", "r", "ä", "n", "i", "n", "g", "s", "t", "i", "g", "h", "t", "s">>, <<"t", "r", "a", "n", "i", "n", "g", "s", "t", "i", "g", "h", "t", "s">>, <<"c", "y", "k", "e", "l", "b", "y", "x", "a">>, <<"c", "y", "k", "e", "l", "b", "y", "x", "o", "r">>, <<"c", "y", "c", "l", "i", "n", "g", " ", "s", "h", "o", "r", "t", "s">>>>,
   exclude_actions |-> {"Replace main zipper", "Replace zipper", "Replace zipper slider"},
   category |-> "repair"]
  >>

service_slug_to_key ==
  << [slug_part |-> <<"r", "e", "p", "a", "i", "r">>, key |-> "repair"],
     [slug_part |-> <<"a", "d", "j", "u", "s", "t", "m", "e", "n", "t">>, key |-> "adjustment"],
     [slug_part |-> <<"w", "a", "s", "h", "i", "n", "g">>, key |-> "care"],
     [slug_part |-> <<"c", "u", "s", "t", "o", "m", "i", "z", "e">>, key |-> "other"] >>

ai_scores == <<10, 9, 8, 7, 6, 5, 4, 3, 2, 1>>

kw_scores == <<7, 5, 3, 1, 1>>

(***************************************************************************)
(* api.py: _inject_keyword_actions                                         *)
(***************************************************************************)
\* excluded: category -> set of action names to remove
Excluded(text) ==
  LET hit  == {i \in 1..Len(KEYWORD_EXCLUSION_RULES) :
                 AnyKeywordIn(KEYWORD_EXCLUSION_RULES[i].keywords, text)}
      cats == {KEYWORD_EXCLUSION_RULES[i].category : i \in hit}
  IN  [c \in cats |->
         UNION {KEYWORD_EXCLUSION_RULES[i].exclude_actions :
                  i \in {j \in hit : KEYWORD_EXCLUSION_RULES[j].category = c}}]

\* category key of a service category: the first slug part found in its slug,
\* "" when none is (the service category is skipped)
CatKey(svc_slug) ==
  LET hits == {i \in 1..Len(service_slug_to_key) :
                 Contains(svc_slug, service_slug_to_key[i].slug_part)}
  IN  IF hits = {} THEN "" ELSE service_slug_to_key[MinOf(hits)].key

\* all_actions, flattened in insertion order: all_actions[name] is the
\* subsequence of the entries with that name
AllActions(services) ==
  Concat([k \in 1..Len(services) |->
            LET svc_cat == services[k]
                cat_key == CatKey(svc_cat.slug)
            IN  IF cat_key = "" THEN <<>>
                ELSE [i \in 1..Len(svc_cat.services) |->
                        [id |-> svc_cat.services[i].id,
                         name |-> svc_cat.services[i].name,
                         price |-> svc_cat.services[i].price,
                         category_key |-> cat_key]]])

\* a["price"] or 9999
PriceKey(price) == IF price = <<>> \/ price[1] = 0 THEN 9999 ELSE price[1]

\* min(variants, key=...): the first variant of least key
BestVariant(variants) ==
  variants[MinOf({i \in 1..Len(variants) :
                    \A j \in 1..Len(variants) :
                      PriceKey(variants[i].price) <= PriceKey(variants[j].price)})]

\* the variant of RuleSelection that puts the default before the sub-keyword matches
RuleSelection_DefaultFirst(rule, text, all_actions) ==
  LET cat == rule.category
      Known(i) == \E k \in 1..Len(all_actions) : all_actions[k].name = rule.actions[i].name
      Entry(i) ==
        LET named    == SelectSeq(all_actions, LAMBDA e : e.name = rule.actions[i].name)
            in_cat   == SelectSeq(named, LAMBDA e : e.category_key = cat)
            variants == IF in_cat = <<>> THEN named ELSE in_cat
            best     == BestVariant(variants)
        IN  [id |-> best.id, name |-> best.name, price |-> best.price]
      IsSub(i) == /\ Known(i)
                  /\ rule.actions[i].sub_keywords # <<>>
                  /\ AnyKeywordIn(rule.actions[i].sub_keywords, text)
      IsDefault(i) == Known(i) /\ ~IsSub(i) /\ rule.actions[i].default
      subs == SelectSeq([i \in 1..Len(rule.actions) |-> i], IsSub)
      sub_matched == [k \in 1..Len(subs) |-> Entry(subs[k])]
      defaults == {i \in 1..Len(rule.actions) : IsDefault(i)}
      selected ==
        IF /\ defaults # {}
           /\ Len(sub_matched) < MAX_INJECTED_PER_RULE
           /\ ~\E k \in 1..Len(sub_matched) :
                 sub_matched[k].name = Entry(MaxOf(defaults)).name
        THEN <<Entry(MaxOf(defaults))>> \o sub_matched
        ELSE sub_matched
  IN  Prefix(selected, MAX_INJECTED_PER_RULE)

\* the contribution of one matching injection rule: selected[:MAX_INJECTED_PER_RULE]
RuleSelection(rule, text, all_actions) ==
  LET cat == rule.category
      Known(i) == \E k \in 1..Len(all_actions) : all_actions[k].name = rule.actions[i].name
      Entry(i) ==
        LET named    == SelectSeq(all_actions, LAMBDA e : e.name = rule.actions[i].name)
            in_cat   == SelectSeq(named, LAMBDA e : e.category_key = cat)
            variants == IF in_cat = <<>> THEN named ELSE in_cat
            best     == BestVariant(variants)
        IN  [id |-> best.id, name |-> best.name, price |-> best.price]
      IsSub(i) == /\ Known(i)
                  /\ rule.actions[i].sub_keywords # <<>>
                  /\ AnyKeywordIn(rule.actions[i].sub_keywords, text)
      IsDefault(i) == Known(i) /\ ~IsSub(i) /\ rule.actions[i].default
      subs == SelectSeq([i \in 1..Len(rule.actions) |-> i], IsSub)
      sub_matched == [k \in 1..Len(subs) |-> Entry(subs[k])]
      defaults == {i \in 1..Len(rule.actions) : IsDefault(i)}
      selected ==
        IF /\ defaults # {}
           /\ Len(sub_matched) < MAX_INJECTED_PER_RULE
           /\ ~\E k \in 1..Len(sub_matched) :
                 sub_matched[k].name = Entry(MaxOf(defaults)).name
        THEN Append(sub_matched, Entry(MaxOf(defaults)))
        ELSE sub_matched
  IN  Prefix(selected, MAX_INJECTED_PER_RULE)

\* injected: category -> list of actions to inject, for the matching rules
Injected(text, services) ==
  LET all_actions == AllActions(services)
      hit  == SelectSeq([i \in 1..Len(KEYWORD_ACTION_RULES) |-> i],
                        LAMBDA i : AnyKeywordIn(KEYWORD_ACTION_RULES[i].keywords, text))
      cats == {KEYWORD_ACTION_RULES[hit[k]].category : k \in 1..Len(hit)}
  IN  [c \in cats |->
         LET of_cat == SelectSeq(hit, LAMBDA i : KEYWORD_ACTION_RULES[i].category = c)
         IN  Concat([k \in 1..Len(of_cat) |->
                       RuleSelection(KEYWORD_ACTION_RULES[of_cat[k]], text, all_actions)])]

\* the scored AI pool: position i gets ai_scores[i], 1 beyond the table
AiScored(existing) ==
  [i \in 1..Len(existing) |->
     [score |-> IF i <= Len(ai_scores) THEN ai_scores[i] ELSE 1, a |-> existing[i]]]

RECURSIVE AddInjected_NoSeenCheck(_, _, _)
\* mutant of AddInjected: every candidate is appended, seen or not
AddInjected_NoSeenCheck(scored, new_actions, kw_idx) ==
  IF new_actions = <<>> THEN scored
  ELSE AddInjected_NoSeenCheck(
         Append(scored,
                [score |-> IF kw_idx < Len(kw_scores) THEN kw_scores[kw_idx + 1] ELSE 1,
                 a |-> Head(new_actions)]),
         Tail(new_actions), kw_idx + 1)

RECURSIVE AddInjected(_, _, _)
\* the loop over new_actions: a candidate is appended unless its id or its
\* name was seen; kw_idx counts the appended candidates
AddInjected(scored, new_actions, kw_idx) ==
  IF new_actions = <<>> THEN scored
  ELSE LET a == Head(new_actions)
           seen_ids   == {scored[i].a.id : i \in 1..Len(scored)}
           seen_names == {scored[i].a.name : i \in 1..Len(scored)}
       IN  IF a.id \notin seen_ids /\ a.name \notin seen_names
           THEN AddInjected(
                  Append(scored,
                         [score |-> IF kw_idx < Len(kw_scores) THEN kw_scores[kw_idx + 1] ELSE 1,
                          a |-> a]),
                  Tail(new_actions), kw_idx + 1)
           ELSE AddInjected(scored, Tail(new_actions), kw_idx)

RECURSIVE SortByScoreDesc_TiesReversed(_)
\* the variant of SortByScoreDesc that puts the later of two equal scores first
SortByScoreDesc_TiesReversed(scored) ==
  IF scored = <<>> THEN <<>>
  ELSE LET m == MaxOf({i \in 1..Len(scored) :
                         \A j \in 1..Len(scored) : scored[j].score <= scored[i].score})
       IN  <<scored[m]>> \o
           SortByScoreDesc_TiesReversed(SubSeq(scored, 1, m - 1) \o SubSeq(scored, m + 1, Len(scored)))

RECURSIVE SortByScoreDesc(_)
\* scored.sort(key=score, reverse=True): stable, equal scores keep their order
SortByScoreDesc(scored) ==
  IF scored = <<>> THEN <<>>
  ELSE LET m == MinOf({i \in 1..Len(scored) :
                         \A j \in 1..Len(scored) : scored[j].score <= scored[i].score})
       IN  <<scored[m]>> \o
           SortByScoreDesc(SubSeq(scored, 1, m - 1) \o SubSeq(scored, m + 1, Len(scored)))

\* step 2 for one category: score, merge, sort, keep the best 5
ScoreMerge(existing, new_actions) ==
  LET scored == SortByScoreDesc(AddInjected(AiScored(existing), new_actions, 0))
      best   == Prefix(scored, 5)
  IN  [i \in 1..Len(best) |-> best[i].a]

\* step 1 for one category: drop the excluded names from the full pool
ApplyExclusion(actions, names_to_remove) ==
  SelectSeq(actions, LAMBDA a : a.name \notin names_to_remove)

inject_keyword_actions(top, text, services) ==
  IF text = <<>> THEN top
  ELSE
    LET excluded == Excluded(text)
        injected == Injected(text, services)
    IN  IF DOMAIN injected = {} /\ DOMAIN excluded = {}
        THEN [cat \in DOMAIN top |-> Prefix(top[cat], 5)]
        ELSE
          LET result == [cat \in DOMAIN top |->
                           IF cat \in DOMAIN excluded
                           THEN ApplyExclusion(top[cat], excluded[cat])
                           ELSE top[cat]]
          IN  IF DOMAIN injected # {}
              THEN [cat \in DOMAIN result \cup DOMAIN injected |->
                      IF cat \in DOMAIN injected
                      THEN ScoreMerge(IF cat \in DOMAIN result THEN result[cat] ELSE <<>>,
                                      injected[cat])
                      ELSE result[cat]]
              ELSE [cat \in DOMAIN result |-> Prefix(result[cat], 5)]

(***************************************************************************)
(* mapping.py: material resolver                                           *)
(*                                                                         *)
(* A material text is a sequence of tokens separated by white space: a     *)
(* percentage "NN%", a name (letters only) or a comma,                      *)
(* which is written directly after the token before it.  The two regular   *)
(* expressions of map_material are modelled on the tokens.  A lookup key   *)
(* is a lowercased token sequence.                                         *)
(***************************************************************************)
Pct(n) == [k |-> "pct", n |-> n, w |-> ""]

Word(w) == [k |-> "word", n |-> 0, w |-> w]

Comma == [k |-> "comma", n |-> 0, w |-> ","]

\* str.lower() on the names of the model
LowerWord(w) ==
  CASE w = "Bomull" -> "bomull"
    [] w = "Metall" -> "metall"
    [] w = "Foo" -> "foo"
    [] OTHER -> w

\* name.strip().lower(): the tokens carry no outer white space
LowerText(tokens) ==
  [i \in 1..Len(tokens) |->
     IF tokens[i].k = "word" THEN Word(LowerWord(tokens[i].w)) ELSE tokens[i]]

\* the key of a bare name
Key(w) == <<Word(w)>>

\* dict.get(key): <<>> is None
Get(map, key) == IF key \in DOMAIN map THEN map[key] ELSE <<>>

\* map[key] = value
Put(map, key, value) == (key :> value) @@ map

\* excerpt of MATERIAL_MAP: the entries for the names of the model and one
\* entry per target; <<>> is None (known, but no QFix material)
MATERIAL_MAP_DEFAULT ==
  (Key("polyester") :> <<"Standard textile">>) @@
  (Key("bomull") :> <<"Standard textile">>) @@
  (Key("ull") :> <<"Linen/Wool">>) @@
  (Key("wool") :> <<"Linen/Wool">>) @@
  (Key("kashmir") :> <<"Cashmere">>) @@
  (Key("siden") :> <<"Silk">>) @@
  (Key("suede") :> <<"Leather/Suede">>) @@
  (Key("dun") :> <<"Down">>) @@
  (Key("glas") :> <<>>) @@
  (Key("metall") :> <<>>)

RECURSIVE PctFirstFrom(_, _)
\* re.findall(r"(\d{1,3})%\s*(.+?)(?:,\s*|(?=\s+\d{1,3}%)|$)", text) from
\* token i on: a percentage and the shortest non-empty run of tokens after it
\* that is followed by a comma, by a percentage or by the end of the text
PctFirstFrom(text, i) ==
  IF i > Len(text) THEN <<>>
  ELSE IF text[i].k # "pct" \/ i = Len(text) THEN PctFirstFrom(text, i + 1)
  ELSE LET e == MinOf({j \in (i + 1)..Len(text) :
                         j = Len(text) \/ text[j + 1].k \in {"comma", "pct"}})
           next == IF e < Len(text) /\ text[e + 1].k = "comma" THEN e + 2 ELSE e + 1
       IN  <<[pct |-> text[i].n, name |-> SubSeq(text, i + 1, e)]>>
             \o PctFirstFrom(text, next)

PctFirstMatches(text) == PctFirstFrom(text, 1)

\* re.findall(r"([A-Za-z\u00C0-\u00FF][A-Za-z\u00C0-\u00FF ]*?)\s+(\d{1,3})%", text):
\* a percentage and the whole run of names directly before it
RevMatches(text) ==
  LET ps == SelectSeq([i \in 1..Len(text) |-> i],
                      LAMBDA p : p > 1 /\ text[p].k = "pct" /\ text[p - 1].k = "word")
      RunStart(p) == MinOf({s \in 1..(p - 1) : \A j \in s..(p - 1) : text[j].k = "word"})
  IN  [m \in 1..Len(ps) |->
         [pct |-> text[ps[m]].n, name |-> SubSeq(text, RunStart(ps[m]), ps[m] - 1)]]

RECURSIVE SortByPctDesc(_)
\* sorted(matches, key=lambda x: int(x[0]), reverse=True): stable
SortByPctDesc(matches) ==
  IF matches = <<>> THEN <<>>
  ELSE LET m == MinOf({i \in 1..Len(matches) :
                         \A j \in 1..Len(matches) : matches[j].pct <= matches[i].pct})
       IN  <<matches[m]>> \o
           SortByPctDesc(SubSeq(matches, 1, m - 1) \o SubSeq(matches, m + 1, Len(matches)))

\* the lookup of one name: brand override first, then global; <<>> when both
\* are missing or None
LookupMaterial(material_map, brand_mat_map, name) ==
  LET qfix_mat == Get(brand_mat_map, LowerText(name))
  IN  IF qfix_mat = <<>> THEN Get(material_map, LowerText(name)) ELSE qfix_mat

\* the variant of ResolveMatches that looks up the highest-percentage name
\* only
ResolveMatches_TopOnly(material_map, brand_mat_map, matches) ==
  IF matches = <<>> THEN <<>>
  ELSE LookupMaterial(material_map, brand_mat_map, SortByPctDesc(matches)[1].name)

\* _resolve: the mapping of the first name, highest percentage first, that
\* has one; <<>> when none has
ResolveMatches(material_map, brand_mat_map, matches) ==
  LET sorted_mats == SortByPctDesc(matches)
      found == {i \in 1..Len(sorted_mats) :
                  LookupMaterial(material_map, brand_mat_map, sorted_mats[i].name) # <<>>}
  IN  IF found = {} THEN <<>>
      ELSE LookupMaterial(material_map, brand_mat_map, sorted_mats[MinOf(found)].name)

\* map_material(kappahl_material, brand=None); brand "" is None
map_material(rules, kappahl_material, brand) ==
  IF kappahl_material = <<>> THEN "Other/Unsure"
  ELSE
    LET brand_mat_map == IF brand # "" THEN Get(rules.BRAND_MATERIAL_OVERRIDES, brand) ELSE <<>>
        matches     == PctFirstMatches(kappahl_material)
        result      == ResolveMatches(rules.MATERIAL_MAP, brand_mat_map, matches)
        rev_matches == RevMatches(kappahl_material)
        rev_result  == ResolveMatches(rules.MATERIAL_MAP, brand_mat_map, rev_matches)
        bare        == LowerText(kappahl_material)
    IN  IF result # <<>> THEN result[1]
        ELSE IF rev_result # <<>> THEN rev_result[1]
        ELSE IF bare \in DOMAIN brand_mat_map
             THEN IF brand_mat_map[bare] # <<>> THEN brand_mat_map[bare][1] ELSE "Other/Unsure"
        ELSE IF bare \in DOMAIN rules.MATERIAL_MAP
             THEN IF rules.MATERIAL_MAP[bare] # <<>> THEN rules.MATERIAL_MAP[bare][1]
                  ELSE "Other/Unsure"
        ELSE "Other/Unsure"

(***************************************************************************)
(* mapping.py: tables of the clothing-type resolver                        *)
(***************************************************************************)
\* QFIX_CLOTHING_TYPE_IDS: canonical clothing type -> QFix L3 id
QFIX_CLOTHING_TYPE_IDS ==
  ("Ancle boots" :> 205) @@
  ("Backpack" :> 121) @@
  ("Belt" :> 102) @@
  ("Bikini" :> 201) @@
  ("Boots" :> 110) @@
  ("Briefcase" :> 122) @@
  ("Cap" :> 99) @@
  ("Coat" :> 60) @@
  ("Dress Shoes" :> 111) @@
  ("Gloves" :> 100) @@
  ("Handbags" :> 123) @@
  ("Hat" :> 98) @@
  ("High heels" :> 114) @@
  ("Highvis jacket" :> 81) @@
  ("Jacket" :> 173) @@
  ("Knee-high boots" :> 206) @@
  ("Knitted Jumper" :> 87) @@
  ("Large (more than 6sqm)" :> 130) @@
  ("Larger Bag / Duffel" :> 124) @@
  ("Lined Jacket / Vest" :> 61) @@
  ("Medium (3 to 6sqm)" :> 129) @@
  ("Midlayer" :> 161) @@
  ("Other" :> 105) @@
  ("Other shoes" :> 146) @@
  ("Others" :> 200) @@
  ("Overall" :> 198) @@
  ("Overalls" :> 160) @@
  ("Rain Jacket" :> 142) @@
  ("Rain Trousers" :> 185) @@
  ("Rain boots" :> 148) @@
  ("Sandals" :> 165) @@
  ("Scarf / Shawl" :> 101) @@
  ("Shirt / Blouse" :> 89) @@
  ("Shirt / t-shirt / Body" :> 194) @@
  ("Shirts/t-shirts" :> 96) @@
  ("Shoes" :> 140) @@
  ("Ski / Shell Trousers" :> 80) @@
  ("Ski / Shell jacket" :> 78) @@
  ("Skirt / Dress" :> 66) @@
  ("Small (less than 3sqm)" :> 128) @@
  ("Sneakers" :> 112) @@
  ("Suit" :> 86) @@
  ("Suit / Smoking" :> 92) @@
  ("Sweater" :> 162) @@
  ("Sweatshirt / Hoodie" :> 88) @@
  ("Swimming trunks" :> 169) @@
  ("Swimsuit" :> 168) @@
  ("T-shirt" :> 163) @@
  ("Top / T-shirt" :> 90) @@
  ("Trousers" :> 174) @@
  ("Trousers / Shorts" :> 84) @@
  ("Underwear" :> 171) @@
  ("Unlined Jacket / Vest" :> 62) @@
  ("Weekend Bag" :> 125) @@
  ("Wet suit" :> 170) @@
  ("Winter boots" :> 145)

\* CLOTHING_TYPE_MAP as loaded: first path segment -> canonical type, <<>> is None
CLOTHING_TYPE_MAP_DEFAULT ==
  (<<"j", "a", "c", "k", "o", "r", " ", "&", " ", "r", "o", "c", "k", "a", "r">> :> <<"Jacket">>) @@
  (<<"j", "a", "c", "k", "o", "r", " ", "&", " ", "k", "a", "p", "p", "o", "r">> :> <<"Jacket">>) @@
  (<<"v", "ä", "s", "t", "a", "r">> :> <<"Unlined Jacket / Vest">>) @@
  (<<"r", "o", "c", "k", "a", "r">> :> <<"Coat">>) @@
  (<<"y", "t", "t", "e", "r", "p", "l", "a", "g", "g">> :> <<"Jacket">>) @@
  (<<"y", "t", "t", "e", "r", "k", "l", "ä", "d", "e", "r">> :> <<"Jacket">>) @@
  (<<"t", "o", "p", "p", "a", "r">> :> <<"Top / T-shirt">>) @@
  (<<"t", "o", "p", "p", "a", "r", " ", "&", " ", "t", "-", "s", "h", "i", "r", "t", "s">> :> <<"Top / T-shirt">>) @@
  (<<"t", "-", "s", "h", "i", "r", "t", "s", " ", "&", " ", "p", "i", "k", "é", "t", "r", "ö", "j", "o", "r">> :> <<"T-shirt">>) @@
  (<<"s", "k", "j", "o", "r", "t", "o", "r">> :> <<"Shirt / Blouse">>) @@
  (<<"s", "k", "j", "o", "r", "t", "o", "r", " ", "&", " ", "b", "l", "u", "s", "a", "r">> :> <<"Shirt / Blouse">>) @@
  (<<"b", "l", "u", "s", "a", "r">> :> <<"Shirt / Blouse">>) @@
  (<<"b", "a", "s", "p", "l", "a", "g", "g">> :> <<"Top / T-shirt">>) @@
  (<<"t", "r", "ö", "j", "o", "r", " ", "&", " ", "c", "a", "r", "d", "i", "g", "a", "n", "s">> :> <<"Knitted Jumper">>) @@
  (<<"t", "r", "ö", "j", "o", "r", " ", "&", " ", "k", "o", "f", "t", "o", "r">> :> <<"Knitted Jumper">>) @@
  (<<"h", "o", "o", "d", "i", "e", "s", " ", "&", " ", "s", "w", "e", "a", "t", "s", "h", "i", "r", "t", "s">> :> <<"Sweatshirt / Hoodie">>) @@
  (<<"j", "e", "a", "n", "s">> :> <<"Trousers">>) @@
  (<<"b", "y", "x", "o", "r">> :> <<"Trousers">>) @@
  (<<"b", "y", "x", "o", "r", " ", "&", " ", "j", "e", "a", "n", "s">> :> <<"Trousers">>) @@
  (<<"s", "h", "o", "r", "t", "s">> :> <<"Trousers / Shorts">>) @@
  (<<"k", "l", "ä", "n", "n", "i", "n", "g", "a", "r", " ", "&", " ", "k", "j", "o", "l", "a", "r">> :> <<"Skirt / Dress">>) @@
  (<<"k", "l", "ä", "n", "n", "i", "n", "g", "a", "r">> :> <<"Skirt / Dress">>) @@
  (<<"k", "j", "o", "l", "a", "r">> :> <<"Skirt / Dress">>) @@
  (<<"k", "o", "s", "t", "y", "m", "e", "r">> :> <<"Suit">>) @@
  (<<"k", "a", "v", "a", "j", "e", "r">> :> <<"Suit">>) @@
  (<<"k", "a", "v", "a", "j", "e", "r", ",", " ", "v", "ä", "s", "t", "a", "r", " ", "&", " ", "k", "o", "s", "t", "y", "m", "e", "r">> :> <<"Suit">>) @@
  (<<"b", "a", "d", "k", "l", "ä", "d", "e", "r">> :> <<"Swimsuit">>) @@
  (<<"b", "a", "d", "k", "l", "ä", "d", "e", "r", " ", "&", " ", "u", "v">> :> <<"Swimsuit">>) @@
  (<<"b", "i", "k", "i", "n", "i">> :> <<"Bikini">>) @@
  (<<"u", "n", "d", "e", "r", "k", "l", "ä", "d", "e", "r">> :> <<"Underwear">>) @@
  (<<"s", "o", "v", "k", "l", "ä", "d", "e", "r">> :> <<"Underwear">>) @@
  (<<"p", "y", "j", "a", "m", "a", "s">> :> <<"Underwear">>) @@
  (<<"l", "o", "u", "n", "g", "e", "w", "e", "a", "r">> :> <<"Sweatshirt / Hoodie">>) @@
  (<<"b", "o", "d", "y", "s">> :> <<"Underwear">>) @@
  (<<"s", "t", "r", "u", "m", "p", "o", "r", " ", "&", " ", "s", "t", "r", "u", "m", "p", "b", "y", "x", "o", "r">> :> <<"Underwear">>) @@
  (<<"u", "n", "d", "e", "r", "s", "t", "ä", "l", "l", " ", "&", " ", "f", "l", "e", "e", "c", "e">> :> <<"Midlayer">>) @@
  (<<"j", "u", "m", "p", "s", "u", "i", "t", "s">> :> <<"Overall">>) @@
  (<<"t", "r", "ä", "n", "i", "n", "g", "s", "k", "l", "ä", "d", "e", "r">> :> <<"Sweatshirt / Hoodie">>) @@
  (<<"m", "a", "m", "m", "a", "k", "l", "ä", "d", "e", "r">> :> <<"Trousers">>) @@
  (<<"s", "k", "o", "r", " ", "&", " ", "t", "o", "f", "f", "l", "o", "r">> :> <<"Sneakers">>) @@
  (<<"b", "u", "s", "i", "n", "e", "s", "s", "k", "j", "o", "r", "t", "o", "r">> :> <<"Shirt / Blouse">>) @@
  (<<"c", "a", "s", "u", "a", "l", "s", "k", "j", "o", "r", "t", "o", "r">> :> <<"Shirt / Blouse">>) @@
  (<<"f", "r", "a", "c", "k", "-", " ", "o", "c", "h", " ", "s", "m", "o", "k", "i", "n", "g", "s", "k", "j", "o", "r", "t", "o", "r">> :> <<"Shirt / Blouse">>) @@
  (<<"j", "a", "c", "k", "o", "r", " ", "&", " ", "o", "v", "e", "r", "s", "h", "i", "r", "t", "s">> :> <<"Jacket">>) @@
  (<<"k", "n", "i", "t", "w", "e", "a", "r">> :> <<"Knitted Jumper">>) @@
  (<<"p", "o", "l", "o", " ", "s", "h", "i", "r", "t", "s">> :> <<"Top / T-shirt">>) @@
  (<<"t", "-", "s", "h", "i", "r", "t">> :> <<"T-shirt">>) @@
  (<<"v", "e", "s", "t", "s">> :> <<"Unlined Jacket / Vest">>) @@
  (<<"t", "r", "o", "j", "o", "r">> :> <<"Knitted Jumper">>) @@
  (<<"k", "l", "a", "n", "n", "i", "n", "g", "a", "r", "j", "u", "m", "p", "s", "u", "i", "t", "s">> :> <<"Skirt / Dress">>) @@
  (<<"b", "l", "u", "s", "a", "r", "s", "k", "j", "o", "r", "t", "o", "r">> :> <<"Shirt / Blouse">>) @@
  (<<"c", "o", "a", "t", "s", "j", "a", "c", "k", "e", "t", "s">> :> <<"Jacket">>) @@
  (<<"v", "a", "s", "k", "o", "r", "p", "l", "a", "n", "b", "o", "c", "k", "e", "r">> :> <<"Handbags">>) @@
  (<<"m", "o", "s", "s", "o", "r", "v", "a", "n", "t", "a", "r">> :> <<"Hat">>) @@
  (<<"s", "c", "a", "r", "v", "e", "s", "h", "a", "l", "s", "d", "u", "k", "a", "r">> :> <<"Scarf / Shawl">>) @@
  (<<"b", "a", "d", "k", "l", "a", "d", "e", "r">> :> <<"Swimsuit">>) @@
  (<<"s", "k", "o", "r">> :> <<"Sneakers">>) @@
  (<<"b", "a", "l", "t", "e", "n">> :> <<"Belt">>) @@
  (<<"k", "n", "i", "t", "t", "e", "d">> :> <<"Knitted Jumper">>) @@
  (<<"f", "e", "s", "t", "k", "l", "a", "d", "e", "r">> :> <<"Skirt / Dress">>) @@
  (<<"n", "e", "c", "e", "s", "s", "a", "r", "e", "r">> :> <<>>) @@
  (<<"o", "v", "r", "i", "g", "a", "a", "c", "c", "e", "s", "s", "o", "a", "r", "e", "r">> :> <<>>) @@
  (<<"n", "y", "a", "a", "c", "c", "e", "s", "s", "o", "a", "r", "e", "r">> :> <<>>) @@
  (<<"m", "o", "b", "i", "l", "t", "i", "l", "l", "b", "e", "h", "o", "r">> :> <<>>) @@
  (<<"b", "a", "g", "-", "c", "h", "a", "r", "m", "s">> :> <<>>) @@
  (<<"b", "e", "a", "u", "t", "y">> :> <<>>) @@
  (<<"p", "r", "i", "n", "t", "w", "o", "r", "k", "s">> :> <<>>) @@
  (<<"s", "e", "l", "f", "-", "c", "a", "r", "e">> :> <<>>) @@
  (<<"u", "n", "d", "e", "r", "k", "l", "a", "d", "e", "r">> :> <<"Underwear">>) @@
  (<<"v", "a", "n", "t", "a", "r">> :> <<"Gloves">>) @@
  (<<"s", "o", "l", "g", "l", "a", "s", "o", "g", "o", "n">> :> <<>>) @@
  (<<"h", "a", "r", "a", "c", "c", "e", "s", "s", "o", "a", "r", "e", "r">> :> <<>>) @@
  (<<"s", "e", "a", "l", "l", "a", "k", "l", "a", "d", "e", "r">> :> <<>>) @@
  (<<"m", "a", "t", "c", "h", "a", "n", "d", "e", "-", "s", "e", "t">> :> <<>>) @@
  (<<"b", "l", "u", "e", "-", "l", "i", "g", "h", "t", "-", "g", "l", "a", "s", "o", "g", "o", "n">> :> <<>>) @@
  (<<"b", "l", "u", "e", "-", "l", "i", "g", "h", "t", "-", "g", "l", "a", "s", "ö", "g", "o", "n">> :> <<>>) @@
  (<<"b", "l", "u", "s", "a", "r", " ", "s", "k", "j", "o", "r", "t", "o", "r">> :> <<"Shirt / Blouse">>) @@
  (<<"t", "o", "p", "p", "a", "r", " ", "t", " ", "s", "h", "i", "r", "t", "s">> :> <<"Top / T-shirt">>) @@
  (<<"t", "r", "o", "j", "o", "r", " ", "c", "a", "r", "d", "i", "g", "a", "n", "s">> :> <<"Knitted Jumper">>) @@
  (<<"k", "a", "v", "a", "j", "e", "r", " ", "t", "u", "n", "n", "a", " ", "j", "a", "c", "k", "o", "r">> :> <<"Suit">>) @@
  (<<"y", "t", "t", "e", "r", "k", "l", "a", "d", "e", "r">> :> <<"Jacket">>) @@
  (<<"v", "a", "s", "t", "a", "r">> :> <<"Unlined Jacket / Vest">>) @@
  (<<"s", "h", "o", "r", "t", "s", " ", "c", "y", "k", "e", "l", "b", "y", "x", "o", "r">> :> <<"Trousers / Shorts">>) @@
  (<<"b", "y", "x", "o", "r", " ", "l", "e", "g", "g", "i", "n", "g", "s">> :> <<"Trousers">>) @@
  (<<"k", "l", "a", "n", "n", "i", "n", "g", "a", "r", " ", "k", "j", "o", "l", "a", "r">> :> <<"Skirt / Dress">>) @@
  (<<"k", "l", "a", "n", "n", "i", "n", "g", "a", "r", " ", "t", "u", "n", "i", "k", "o", "r">> :> <<"Skirt / Dress">>) @@
  (<<"k", "l", "a", "n", "n", "i", "n", "g", "a", "r">> :> <<"Skirt / Dress">>) @@
  (<<"j", "u", "m", "p", "s", "u", "i", "t", "s", " ", "o", "n", "e", "s", "i", "e", "s">> :> <<"Overall">>) @@
  (<<"o", "n", "e", "s", "i", "e", "s">> :> <<"Overall">>) @@
  (<<"b", "o", "d", "i", "e", "s">> :> <<"Underwear">>) @@
  (<<"s", "t", "r", "u", "m", "p", "o", "r", " ", "s", "t", "r", "u", "m", "p", "b", "y", "x", "o", "r">> :> <<"Underwear">>) @@
  (<<"s", "t", "r", "u", "m", "p", "b", "y", "x", "o", "r", " ", "l", "e", "g", "g", "i", "n", "g", "s">> :> <<"Underwear">>) @@
  (<<"s", "t", "r", "u", "m", "p", "o", "r">> :> <<"Underwear">>) @@
  (<<"t", "r", "o", "s", "o", "r">> :> <<"Underwear">>) @@
  (<<"b", "h">> :> <<"Underwear">>) @@
  (<<"s", "o", "v", "k", "l", "a", "d", "e", "r">> :> <<"Underwear">>) @@
  (<<"l", "i", "n", "n", "e", "n">> :> <<"Underwear">>) @@
  (<<"m", "o", "r", "g", "o", "n", "r", "o", "c", "k", "a", "r">> :> <<"Underwear">>) @@
  (<<"s", "h", "a", "p", "i", "n", "g">> :> <<"Underwear">>) @@
  (<<"u", "n", "d", "e", "r", "k", "l", "a", "n", "n", "i", "n", "g", "a", "r">> :> <<"Underwear">>) @@
  (<<"u", "l", "l", "u", "n", "d", "e", "r", "s", "t", "a", "l", "l">> :> <<"Midlayer">>) @@
  (<<"p", "e", "r", "f", "o", "r", "m", "a", "n", "c", "e", "w", "e", "a", "r">> :> <<"Sweatshirt / Hoodie">>) @@
  (<<"t", "r", "o", "j", "o", "r", " ", "k", "o", "f", "t", "o", "r">> :> <<"Knitted Jumper">>) @@
  (<<"s", "k", "j", "o", "r", "t", "o", "r", " ", "b", "l", "u", "s", "a", "r">> :> <<"Shirt / Blouse">>) @@
  (<<"m", "a", "m", "m", "a", "u", "n", "d", "e", "r", "k", "l", "a", "d", "e", "r">> :> <<"Underwear">>) @@
  (<<"m", "a", "m", "m", "a", "k", "l", "a", "d", "e", "r">> :> <<"Trousers">>) @@
  (<<"t", "r", "a", "n", "i", "n", "g", "s", "k", "l", "a", "d", "e", "r">> :> <<"Sweatshirt / Hoodie">>) @@
  (<<"b", "a", "d", "k", "l", "a", "d", "e", "r", " ", "u", "v">> :> <<"Swimsuit">>) @@
  (<<"t", "o", "f", "f", "l", "o", "r">> :> <<"Other shoes">>) @@
  (<<"n", "y", "f", "o", "d", "d">> :> <<"Underwear">>) @@
  (<<"k", "l", "i", "m", "a", "k", "t", "e", "r", "i", "e", "k", "l", "a", "d", "e", "r">> :> <<"Underwear">>) @@
  (<<"s", "e", "t">> :> <<"Other">>) @@
  (<<"f", "l", "e", "r", "p", "a", "c", "k">> :> <<"Other">>) @@
  (<<"k", "o", "m", "m", "e", "r", " ", "s", "n", "a", "r", "t">> :> <<>>) @@
  (<<"b", "a", "s", "t", "s", "a", "l", "j", "a", "r", "e">> :> <<>>) @@
  (<<"u", "t", "v", "a", "l", "d", "a", " ", "n", "y", "h", "e", "t", "e", "r">> :> <<>>) @@
  (<<"p", "r", "e", "m", "i", "u", "m", " ", "q", "u", "a", "l", "i", "t", "y">> :> <<>>) @@
  (<<"h", "o", "l", "l", "y", "w", "h", "y", "t", "e">> :> <<>>) @@
  (<<"b", "a", "s", "g", "a", "r", "d", "e", "r", "o", "b", "e", "n">> :> <<>>) @@
  (<<"b", "h", " ", "g", "u", "i", "d", "e">> :> <<>>) @@
  (<<"k", "l", "a", "d", "v", "a", "r", "d">> :> <<>>) @@
  (<<"t", "i", "l", "l", "b", "e", "h", "o", "r">> :> <<>>) @@
  (<<"c", "a", "s", "u", "a", "l", " ", "c", "o", "m", "f", "o", "r", "t">> :> <<>>) @@
  (<<"c", "l", "a", "s", "s", "i", "c">> :> <<>>) @@
  (<<"f", "e", "m", "i", "n", "i", "n", "e">> :> <<>>) @@
  (<<"p", "r", "e", "p", "p", "y">> :> <<>>) @@
  (<<"o", "n", "c", "e", "m", "o", "r", "e">> :> <<>>) @@
  (<<"f", "e", "m", "a", "l", "e", "e", "n", "g", "i", "n", "e", "e", "r", "i", "n", "g">> :> <<>>) @@
  (<<"c", "l", "o", "s", "e", "l", "y">> :> <<>>) @@
  (<<"l", "i", "n", "e", "n", " ", "c", "o", "l", "l", "e", "c", "t", "i", "o", "n">> :> <<>>) @@
  (<<"n", "y", "h", "e", "t", "e", "r">> :> <<>>) @@
  (<<"b", "a", "s", "p", "l", "a", "g", "g", " ", "3", " ", "f", "o", "r", " ", "2">> :> <<>>) @@
  (<<"o", "u", "t", "f", "i", "t", "s", " ", "p", "a", " ", "s", "o", "c", "i", "a", "l", "a", " ", "m", "e", "d", "i", "e", "r">> :> <<>>) @@
  (<<"t", "r", "o", "s", "g", "u", "i", "d", "e">> :> <<>>) @@
  (<<"b", "y", "x", "g", "u", "i", "d", "e">> :> <<>>) @@
  (<<"m", "e", "n", "s", "t", "r", "o", "s", "o", "r", " ", "g", "u", "i", "d", "e">> :> <<>>) @@
  (<<"e", "l", "l", "a", "m">> :> <<>>) @@
  (<<"p", "r", "e", "s", "e", "n", "t", " ", "b", "a", "b", "y">> :> <<>>) @@
  (<<"l", "i", "n", "d", "e", "x">> :> <<>>) @@
  (<<"a", "l", "l", "a", " ", "h", "j", "a", "e", "r", "t", "a", "n", "s", " ", "d", "a", "g">> :> <<>>) @@
  (<<"h", "e", "l", "l", "o", "k", "i", "t", "t", "y">> :> <<>>) @@
  (<<"m", "o", "o", "m", "i", "n">> :> <<>>) @@
  (<<"p", "a", "w", "p", "a", "t", "r", "o", "l">> :> <<>>) @@
  (<<"g", "a", "b", "b", "y", "s", "d", "o", "l", "l", "h", "o", "u", "s", "e">> :> <<>>) @@
  (<<"l", "i", "l", "o", "s", "t", "i", "c", "h">> :> <<>>) @@
  (<<"m", "i", "n", "e", "c", "r", "a", "f", "t">> :> <<>>) @@
  (<<"b", "l", "u", "e", "y">> :> <<>>) @@
  (<<"c", "a", "p", "y", "f", "u", "n">> :> <<>>) @@
  (<<"f", "a", "l", "l", "g", "u", "y", "s">> :> <<>>) @@
  (<<"h", "o", "t", "w", "h", "e", "e", "l", "s">> :> <<>>) @@
  (<<"p", "o", "k", "e", "m", "o", "n">> :> <<>>) @@
  (<<"t", "o", "c", "a", "b", "o", "c", "a">> :> <<>>) @@
  (<<"n", "i", "n", "j", "a", "g", "o">> :> <<>>) @@
  (<<"s", "o", "n", "i", "c">> :> <<>>) @@
  (<<"2", " ", "8", " ", "a", "r">> :> <<>>) @@
  (<<"9", " ", "1", "4", " ", "a", "r">> :> <<>>) @@
  (<<"m", "e", "n", "'", "s", " ", "j", "e", "a", "n", "s">> :> <<"Trousers">>) @@
  (<<"w", "o", "m", "e", "n", "'", "s", " ", "j", "e", "a", "n", "s">> :> <<"Trousers">>) @@
  (<<"w", "o", "m", "e", "n", "'", "s", " ", "p", "a", "n", "t", "s">> :> <<"Trousers">>) @@
  (<<"w", "o", "m", "e", "n", "'", "s", " ", "s", "o", "c", "k", "s">> :> <<"Underwear">>) @@
  (<<"a", "c", "c", "e", "s", "s", "o", "a", "r", "e", "r">> :> <<>>) @@
  (<<"m", "ö", "s", "s", "o", "r", ",", " ", "h", "a", "t", "t", "a", "r", " ", "&", " ", "k", "e", "p", "s", "a", "r">> :> <<"Hat">>) @@
  (<<"k", "e", "p", "s", "a", "r">> :> <<"Cap">>) @@
  (<<"v", "a", "n", "t", "a", "r", " ", "&", " ", "h", "a", "n", "d", "s", "k", "a", "r">> :> <<"Gloves">>) @@
  (<<"h", "a", "n", "d", "s", "k", "a", "r", " ", "&", " ", "v", "a", "n", "t", "a", "r">> :> <<"Gloves">>) @@
  (<<"s", "c", "a", "r", "v", "e", "s">> :> <<"Scarf / Shawl">>) @@
  (<<"h", "a", "l", "s", "d", "u", "k", "a", "r", " ", "&", " ", "s", "j", "a", "l", "a", "r">> :> <<"Scarf / Shawl">>) @@
  (<<"b", "ä", "l", "t", "e", "n">> :> <<"Belt">>) @@
  (<<"v", "ä", "s", "k", "o", "r", " ", "&", " ", "p", "l", "å", "n", "b", "ö", "c", "k", "e", "r">> :> <<"Handbags">>) @@
  (<<"s", "o", "l", "g", "l", "a", "s", "ö", "g", "o", "n">> :> <<>>) @@
  (<<"s", "m", "y", "c", "k", "e", "n">> :> <<>>) @@
  (<<"h", "å", "r", "a", "c", "c", "e", "s", "s", "o", "a", "r", "e", "r">> :> <<>>) @@
  (<<"k", "l", "ä", "d", "v", "å", "r", "d">> :> <<>>)

\* ACCESSORY_SUB_MAP: KappAhl accessory sub-segment -> canonical type
ACCESSORY_SUB_MAP ==
  (<<"v", "a", "n", "t", "a", "r", " ", "&", " ", "h", "a", "n", "d", "s", "k", "a", "r">> :> <<"Gloves">>) @@
  (<<"h", "a", "n", "d", "s", "k", "a", "r", " ", "&", " ", "v", "a", "n", "t", "a", "r">> :> <<"Gloves">>) @@
  (<<"v", "a", "n", "t", "a", "r">> :> <<"Gloves">>) @@
  (<<"h", "a", "n", "d", "s", "k", "a", "r">> :> <<"Gloves">>) @@
  (<<"m", "ö", "s", "s", "o", "r", ",", " ", "h", "a", "t", "t", "a", "r", " ", "&", " ", "k", "e", "p", "s", "a", "r">> :> <<"Hat">>) @@
  (<<"k", "e", "p", "s", "a", "r", " ", "&", " ", "h", "a", "t", "t", "a", "r">> :> <<"Hat">>) @@
  (<<"m", "ö", "s", "s", "o", "r", ",", " ", "k", "e", "p", "s", "a", "r", " ", "&", " ", "h", "a", "t", "t", "a", "r">> :> <<"Hat">>) @@
  (<<"m", "ö", "s", "s", "o", "r">> :> <<"Hat">>) @@
  (<<"h", "a", "t", "t", "a", "r">> :> <<"Hat">>) @@
  (<<"k", "e", "p", "s", "a", "r">> :> <<"Cap">>) @@
  (<<"s", "o", "l", "h", "a", "t", "t", "a", "r">> :> <<"Hat">>) @@
  (<<"h", "a", "l", "s", "d", "u", "k", "a", "r", " ", "&", " ", "s", "j", "a", "l", "a", "r">> :> <<"Scarf / Shawl">>) @@
  (<<"h", "a", "l", "s", "d", "u", "k", "a", "r">> :> <<"Scarf / Shawl">>) @@
  (<<"s", "j", "a", "l", "a", "r">> :> <<"Scarf / Shawl">>) @@
  (<<"b", "ä", "l", "t", "e", "n">> :> <<"Belt">>) @@
  (<<"v", "ä", "s", "k", "o", "r", " ", "&", " ", "p", "l", "å", "n", "b", "ö", "c", "k", "e", "r">> :> <<"Handbags">>) @@
  (<<"v", "ä", "s", "k", "o", "r">> :> <<"Handbags">>) @@
  (<<"r", "y", "g", "g", "s", "ä", "c", "k", "a", "r">> :> <<"Handbags">>)

\* SKIP_SEGMENTS
SKIP_SEGMENTS == {<<"b", "a", "b", "y">>, <<"b", "a", "r", "n">>, <<"d", "a", "m">>, <<"h", "e", "r", "r">>}

\* _KEYWORD_CLOTHING_MAP as loaded: ordered (keyword, canonical type) pairs
KEYWORD_CLOTHING_MAP_DEFAULT == <<
  <<<<"d", "u", "n", "g", "a", "r", "e", "e", "s">>, "Overall">>,
  <<<<"b", "o", "i", "l", "e", "r", "s", "u", "i", "t">>, "Overall">>,
  <<<<"h", "o", "o", "d", "i", "e">>, "Sweatshirt / Hoodie">>,
  <<<<"s", "w", "e", "a", "t", "s", "h", "i", "r", "t">>, "Sweatshirt / Hoodie">>,
  <<<<"d", "e", "n", "i", "m", " ", "j", "a", "c", "k", "e", "t">>, "Jacket">>,
  <<<<"b", "l", "a", "z", "e", "r">>, "Suit">>,
  <<<<"j", "a", "c", "k", "e", "t">>, "Jacket">>,
  <<<<"t", "-", "s", "h", "i", "r", "t">>, "T-shirt">>,
  <<<<"t", "e", "e", " ">>, "T-shirt">>,
  <<<<" ", "t", "e", "e">>, "T-shirt">>,
  <<<<"t", "a", "n", "k", " ", "t", "o", "p">>, "Top / T-shirt">>,
  <<<<"h", "e", "n", "l", "e", "y">>, "Top / T-shirt">>,
  <<<<"s", "k", "j", "o", "r", "t", "a">>, "Shirt / Blouse">>,
  <<<<"s", "h", "i", "r", "t">>, "Shirt / Blouse">>,
  <<<<"k", "n", "i", "t">>, "Knitted Jumper">>,
  <<<<"s", "w", "e", "a", "t", "e", "r">>, "Sweater">>,
  <<<<"s", "h", "o", "r", "t", "s">>, "Trousers / Shorts">>,
  <<<<"j", "e", "a", "n", "s">>, "Trousers">>,
  <<<<"p", "a", "n", "t", "s">>, "Trousers">>,
  <<<<"s", "k", "i", "r", "t">>, "Skirt / Dress">>,
  <<<<"d", "r", "e", "s", "s">>, "Skirt / Dress">>,
  <<<<"b", "e", "l", "t">>, "Belt">>,
  <<<<"w", "a", "l", "l", "e", "t">>, "Handbags">>,
  <<<<"b", "a", "g">>, "Handbags">>,
  <<<<"b", "e", "a", "n", "i", "e">>, "Hat">>,
  <<<<"b", "u", "c", "k", "e", "t", " ", "h", "a", "t">>, "Hat">>,
  <<<<"b", "a", "n", "d", "a", "n", "a">>, "Scarf / Shawl">>,
  <<<<"s", "o", "c", "k">>, "Underwear">>,
  <<<<"b", "o", "x", "e", "r">>, "Underwear">>,
  <<<<"b", "r", "i", "e", "f", "s">>, "Underwear">>,
  <<<<"s", "w", "e", "a", "t", " ">>, "Sweatshirt / Hoodie">>,
  <<<<" ", "z", "i", "p", " ">>, "Sweatshirt / Hoodie">>,
  <<<<"e", "a", "s", "y", " ", "a", "l", "v", "i", "n">>, "Trousers">>,
  <<<<"g", "r", "i", "m", " ", "t", "i", "m">>, "Trousers">>,
  <<<<"g", "r", "i", "t", "t", "y", " ", "j", "a", "c", "k", "s", "o", "n">>, "Trousers">>,
  <<<<"l", "e", "a", "n", " ", "d", "e", "a", "n">>, "Trousers">>,
  <<<<"l", "o", "u", "d", " ", "l", "a", "r", "r", "y">>, "Trousers">>,
  <<<<"r", "a", "d", " ", "r", "u", "f", "u", "s">>, "Trousers">>,
  <<<<"s", "l", "i", "m", " ", "j", "i", "m">>, "Trousers">>,
  <<<<"s", "o", "l", "i", "d", " ", "o", "l", "l", "i", "e">>, "Trousers">>,
  <<<<"s", "t", "e", "a", "d", "y", " ", "e", "d", "d", "i", "e">>, "Trousers">>,
  <<<<"t", "i", "g", "h", "t", " ", "t", "e", "r", "r", "y">>, "Trousers">>,
  <<<<"t", "u", "f", "f", " ", "t", "o", "n", "y">>, "Trousers">>,
  <<<<"f", "l", "a", "r", "e", " ", "g", "l", "e", "n", "n">>, "Trousers">>,
  <<<<"b", "r", "e", "e", "z", "y", " ", "b", "r", "i", "t", "t">>, "Trousers">>,
  <<<<"c", "l", "e", "a", "n", " ", "e", "i", "l", "e", "e", "n">>, "Trousers">>,
  <<<<"d", "u", "s", "t", "y", " ", "d", "e", "e">>, "Trousers">>,
  <<<<"l", "o", "f", "t", "y", " ", "l", "o">>, "Trousers">>,
  <<<<"s", "o", "n", "i", "c", " ", "s", "u", "e">>, "Trousers">>,
  <<<<"w", "i", "d", "e", " ", "h", "e", "i", "d", "i">>, "Trousers">>,
  <<<<"t", "i", "n", "y", " ", "t", "o", "n", "y">>, "Trousers">>,
  <<<<"t", "i", "n", "y", " ", "t", "u", "r", "n", "e", "r">>, "Trousers">>,
  <<<<"d", "e", "n", "i", "m">>, "Trousers">>,
  <<<<"j", "o", "n", "i", " ">>, "T-shirt">>,
  <<<<"r", "o", "g", "e", "r", " ", "s", "l", "u", "b">>, "T-shirt">>,
  <<<<"r", "o", "f", "f", "e", " ", "s", "l", "u", "b">>, "T-shirt">>
>>

(***************************************************************************)
(* mapping.py: clothing-type resolver                                      *)
(***************************************************************************)
UpperChars == <<"A", "B", "C", "D", "E", "F", "G", "H", "I", "J", "K", "L", "M",
                "N", "O", "P", "Q", "R", "S", "T", "U", "V", "W", "X", "Y", "Z",
                "Å", "Ä", "Ö", "É">>

LowerChars == <<"a", "b", "c", "d", "e", "f", "g", "h", "i", "j", "k", "l", "m",
                "n", "o", "p", "q", "r", "s", "t", "u", "v", "w", "x", "y", "z",
                "å", "ä", "ö", "é">>

\* str.lower() on one character
LowerChar(c) ==
  IF \E i \in 1..Len(UpperChars) : UpperChars[i] = c
  THEN LowerChars[CHOOSE i \in 1..Len(UpperChars) : UpperChars[i] = c]
  ELSE c

\* str.lower()
Lower(s) == [i \in 1..Len(s) |-> LowerChar(s[i])]

IsSpace(c) == c \in {" ", "\t", "\n"}

\* str.strip()
Strip(s) ==
  LET keep == {i \in 1..Len(s) : ~IsSpace(s[i])}
  IN  IF keep = {} THEN <<>> ELSE SubSeq(s, MinOf(keep), MaxOf(keep))

RECURSIVE Split(_, _)
\* str.split(sep) for a one-character separator
Split(s, sep) ==
  LET at == {i \in 1..Len(s) : s[i] = sep}
  IN  IF at = {} THEN <<s>>
      ELSE <<SubSeq(s, 1, MinOf(at) - 1)>> \o Split(SubSeq(s, MinOf(at) + 1, Len(s)), sep)

RECURSIVE Join(_, _)
\* sep.join(parts)
Join(parts, sep) ==
  IF parts = <<>> THEN <<>>
  ELSE IF Len(parts) = 1 THEN parts[1]
  ELSE parts[1] \o sep \o Join(Tail(parts), sep)

RECURSIVE SkipLeading(_)
\* while parts and parts[0] in SKIP_SEGMENTS: parts = parts[1:]
SkipLeading(parts) ==
  IF parts # <<>> /\ parts[1] \in SKIP_SEGMENTS THEN SkipLeading(Tail(parts)) ELSE parts

\* [p.strip().lower() for p in kappahl_clothing_type.split(">")] without the
\* leading generic segments
PathParts(kappahl_clothing_type) ==
  LET raw == Split(kappahl_clothing_type, ">")
  IN  SkipLeading([i \in 1..Len(raw) |-> Lower(Strip(raw[i]))])

\* " ".join(filter(None, [product_name, description])).lower(); <<>> is
\* None or the empty string
ProductText(product_name, description) ==
  Lower(Join(SelectSeq(<<product_name, description>>, LAMBDA x : x # <<>>), <<" ">>))

\* the variant of FirstKeywordMatch in which the last matching rule wins
FirstKeywordMatch_LastRule(keyword_map, text) ==
  LET hits == {i \in 1..Len(keyword_map) : Contains(text, keyword_map[i][1])}
  IN  IF hits = {} THEN <<>> ELSE <<keyword_map[MaxOf(hits)][2]>>

\* for keyword, qfix_type in keyword_map: if keyword in text: return qfix_type
\* <<>> when no keyword occurs in the text
FirstKeywordMatch(keyword_map, text) ==
  LET hits == {i \in 1..Len(keyword_map) : Contains(text, keyword_map[i][1])}
  IN  IF hits = {} THEN <<>> ELSE <<keyword_map[MinOf(hits)][2]>>

\* the outcome of a brand block: a return statement with its value (<<>> is
\* None), or no return statement reached
Return(value) == [returned |-> TRUE, value |-> value]

NoReturn == [returned |-> FALSE, value |-> <<>>]

\* pn and any(kw in pn for kw in kws)
PnHas(pn, kws) == pn # <<>> /\ AnyKeywordIn(kws, pn)

\* the Gina Tricot sub-mappings
GinaTricotSubMapping(first, parts) ==
  LET sub == parts[2]
      deep == Len(parts) > 1
  IN  IF first = <<"b", "a", "d", "k", "l", "a", "d", "e", "r">> /\ deep THEN
        IF Contains(sub, <<"b", "i", "k", "i", "n", "i">>) THEN Return(<<"Bikini">>) ELSE Return(<<"Swimsuit">>)
      ELSE IF first = <<"s", "k", "o", "r">> THEN
        IF deep /\ Contains(sub, <<"b", "o", "o", "t", "s">>) THEN Return(<<"Boots">>)
        ELSE IF deep /\ (Contains(sub, <<"h", "o", "g", "k", "l", "a", "c", "k", "a", "d", "e">>) \/ Contains(sub, <<"k", "l", "a", "c", "k">>))
          THEN Return(<<"High heels">>)
        ELSE IF deep /\ Contains(sub, <<"s", "a", "n", "d", "a", "l", "e", "r">>) THEN Return(<<"Sandals">>)
        ELSE IF deep /\ Contains(sub, <<"s", "n", "e", "a", "k", "e", "r", "s">>) THEN Return(<<"Sneakers">>)
        ELSE IF deep /\ (Contains(sub, <<"t", "o", "f", "f", "l", "o", "r">>) \/ Contains(sub, <<"b", "a", "l", "l", "e", "r", "i", "n", "a">>))
          THEN Return(<<"Other shoes">>)
        ELSE Return(<<"Other shoes">>)
      ELSE IF first = <<"f", "e", "s", "t", "k", "l", "a", "d", "e", "r">> /\ deep THEN
        IF Contains(sub, <<"b", "y", "x", "o", "r">>) THEN Return(<<"Trousers">>) ELSE Return(<<"Skirt / Dress">>)
      ELSE IF first = <<"m", "o", "s", "s", "o", "r", "v", "a", "n", "t", "a", "r">> /\ deep THEN
        IF Contains(sub, <<"c", "a", "p", "s">>) \/ Contains(sub, <<"k", "e", "p", "s">>) THEN Return(<<"Cap">>)
        ELSE Return(<<"Hat">>)
      ELSE IF first = <<"c", "o", "a", "t", "s", "j", "a", "c", "k", "e", "t", "s">> /\ deep THEN
        IF Contains(sub, <<"v", "a", "s", "t", "a", "r">>) THEN Return(<<"Unlined Jacket / Vest">>)
        ELSE IF Contains(sub, <<"k", "a", "v", "a", "j", "e", "r">>) THEN Return(<<"Suit">>)
        ELSE Return(<<"Jacket">>)
      ELSE IF first = <<"k", "n", "i", "t", "t", "e", "d">> /\ deep THEN
        IF Contains(sub, <<"a", "c", "c", "e", "s", "s", "o", "r", "i", "e", "s">>) THEN Return(<<"Scarf / Shawl">>)
        ELSE IF Contains(sub, <<"v", "a", "s", "t", "a", "r">>) THEN Return(<<"Unlined Jacket / Vest">>)
        ELSE Return(<<"Knitted Jumper">>)
      ELSE IF first = <<"j", "e", "a", "n", "s">> /\ deep THEN
        IF Contains(sub, <<"s", "h", "o", "r", "t", "s">>) THEN Return(<<"Trousers / Shorts">>)
        ELSE Return(<<"Trousers">>)
      ELSE IF first = <<"b", "a", "s", "p", "l", "a", "g", "g">> /\ deep THEN
        IF AnyKeywordIn(<<<<"s", "h", "o", "r", "t", "s">>, <<"b", "i", "k", "e", "r">>, <<"c", "y", "k", "e", "l">>>>, sub)
        THEN Return(<<"Trousers / Shorts">>) ELSE Return(<<"Top / T-shirt">>)
      ELSE IF first = <<"t", "r", "o", "j", "o", "r">> /\ deep THEN
        IF Contains(sub, <<"h", "o", "o", "d", "i", "e", "s">>) \/ Contains(sub, <<"h", "o", "o", "d", "i", "e">>)
          THEN Return(<<"Sweatshirt / Hoodie">>)
        ELSE IF Contains(sub, <<"c", "o", "l", "l", "e", "g", "e", "t", "r", "o", "j", "o", "r">>) THEN Return(<<"Sweatshirt / Hoodie">>)
        ELSE IF Contains(sub, <<"v", "a", "s", "t", "a", "r">>) THEN Return(<<"Unlined Jacket / Vest">>)
        ELSE Return(<<"Knitted Jumper">>)
      ELSE IF first = <<"l", "o", "u", "n", "g", "e", "w", "e", "a", "r">> THEN Return(<<"Other">>)
      ELSE IF first = <<"t", "r", "a", "n", "i", "n", "g", "s", "k", "l", "a", "d", "e", "r">> /\ deep THEN
        IF Contains(sub, <<"p", "i", "l", "a", "t", "e", "s">>) \/ Contains(sub, <<"y", "o", "g", "a">>) THEN Return(<<"Top / T-shirt">>)
        ELSE Return(<<"Sweatshirt / Hoodie">>)
      ELSE NoReturn

\* the Lindex sub-mappings
LindexSubMapping(first, pn) ==
  IF first \in {<<"b", "a", "d", "k", "l", "a", "d", "e", "r">>, <<"b", "a", "d", "k", "l", "a", "d", "e", "r", " ", "u", "v">>} THEN
    IF PnHas(pn, <<<<"b", "i", "k", "i", "n", "i">>>>) THEN Return(<<"Bikini">>) ELSE Return(<<"Swimsuit">>)
  ELSE IF first = <<"k", "a", "v", "a", "j", "e", "r", " ", "t", "u", "n", "n", "a", " ", "j", "a", "c", "k", "o", "r">> THEN
    IF PnHas(pn, <<<<"k", "a", "v", "a", "j">>, <<"b", "l", "a", "z", "e", "r">>>>) THEN Return(<<"Suit">>) ELSE Return(<<"Jacket">>)
  ELSE IF first = <<"p", "e", "r", "f", "o", "r", "m", "a", "n", "c", "e", "w", "e", "a", "r">> THEN
    IF PnHas(pn, <<<<"b", "y", "x", "o", "r">>, <<"b", "y", "x", "a">>>>) THEN Return(<<"Trousers">>)
    ELSE IF PnHas(pn, <<<<"o", "v", "e", "r", "a", "l", "l">>>>) THEN Return(<<"Overall">>)
    ELSE IF PnHas(pn, <<<<"v", "a", "n", "t", "a", "r">>, <<"t", "u", "m", "v", "a", "n", "t", "a", "r">>>>) THEN Return(<<"Gloves">>)
    ELSE IF PnHas(pn, <<<<"m", "ö", "s", "s", "a">>, <<"m", "o", "s", "s", "a">>>>) THEN Return(<<"Hat">>)
    ELSE Return(<<"Jacket">>)
  ELSE IF first = <<"t", "r", "a", "n", "i", "n", "g", "s", "k", "l", "a", "d", "e", "r">> THEN
    IF PnHas(pn, <<<<"b", "a", "d", "d", "r", "ä", "k", "t">>, <<"b", "a", "d", "d", "r", "a", "k", "t">>>>) THEN Return(<<"Swimsuit">>)
    ELSE Return(<<"Underwear">>)
  ELSE IF first \in {<<"t", "r", "o", "j", "o", "r", " ", "k", "o", "f", "t", "o", "r">>, <<"t", "r", "o", "j", "o", "r", " ", "c", "a", "r", "d", "i", "g", "a", "n", "s">>} THEN
    IF PnHas(pn, <<<<"s", "w", "e", "a", "t", "s", "h", "i", "r", "t">>, <<"h", "o", "o", "d", "i", "e">>, <<"c", "o", "l", "l", "e", "g", "e">>>>)
    THEN Return(<<"Sweatshirt / Hoodie">>) ELSE Return(<<"Knitted Jumper">>)
  ELSE IF first = <<"l", "i", "n", "n", "e", "n">> THEN Return(<<"Top / T-shirt">>)
  ELSE IF first = <<"k", "l", "i", "m", "a", "k", "t", "e", "r", "i", "e", "k", "l", "a", "d", "e", "r">> THEN Return(<<"Top / T-shirt">>)
  ELSE IF first = <<"m", "a", "m", "m", "a", "k", "l", "a", "d", "e", "r">> THEN
    IF PnHas(pn, <<<<"s", "h", "o", "r", "t", "s">>, <<"c", "y", "k", "e", "l", "b", "y", "x", "a">>>>) THEN Return(<<"Trousers / Shorts">>)
    ELSE IF PnHas(pn, <<<<"j", "e", "a", "n", "s">>, <<"b", "y", "x", "o", "r">>, <<"b", "y", "x", "a">>, <<"l", "e", "g", "g", "i", "n", "g", "s">>>>) THEN Return(<<"Trousers">>)
    ELSE IF PnHas(pn, <<<<"k", "l", "ä", "n", "n", "i", "n", "g">>, <<"k", "l", "a", "n", "n", "i", "n", "g">>>>) THEN Return(<<"Skirt / Dress">>)
    ELSE IF PnHas(pn, <<<<"k", "j", "o", "l">>>>) THEN Return(<<"Skirt / Dress">>)
    ELSE IF PnHas(pn, <<<<"t", "o", "p", "p">>, <<"l", "i", "n", "n", "e">>, <<"a", "m", "n", "i", "n", "g", "s", "t", "o", "p", "p">>, <<"t", "-", "s", "h", "i", "r", "t">>, <<"t", "r", "ö", "j", "a">>, <<"s", "k", "j", "o", "r", "t", "a">>>>)
      THEN Return(<<"Top / T-shirt">>)
    ELSE Return(<<"Other">>)
  ELSE IF first = <<"n", "y", "f", "o", "d", "d">> THEN
    IF PnHas(pn, <<<<"b", "o", "d", "y">>, <<"o", "m", "l", "o", "t", "t", "b", "o", "d", "y">>>>) THEN Return(<<"Underwear">>)
    ELSE IF PnHas(pn, <<<<"k", "l", "ä", "n", "n", "i", "n", "g">>, <<"k", "l", "a", "n", "n", "i", "n", "g">>>>) THEN Return(<<"Skirt / Dress">>)
    ELSE IF PnHas(pn, <<<<"b", "y", "x", "o", "r">>, <<"b", "y", "x", "a">>, <<"l", "e", "g", "g", "i", "n", "g", "s">>, <<"m", "j", "u", "k", "i", "s", "b", "y", "x", "o", "r">>>>)
      THEN Return(<<"Trousers">>)
    ELSE Return(<<"Other">>)
  ELSE NoReturn

\* the variant of EtonSubMapping that leaves the accessory block without a
\* return statement when no keyword matches
EtonSubMapping_FallThrough(first, pn) ==
  IF first = <<"a", "c", "c", "e", "s", "s", "o", "a", "r", "e", "r">> THEN
    IF PnHas(pn, <<<<"b", "a", "d", "s", "h", "o", "r", "t", "s">>, <<"s", "w", "i", "m", " ", "s", "h", "o", "r", "t", "s">>, <<"b", "a", "d", "b", "y", "x", "o", "r">>>>)
      THEN Return(<<"Trousers / Shorts">>)
    ELSE IF PnHas(pn, <<<<"s", "c", "a", "r", "f">>, <<"h", "a", "l", "s", "d", "u", "k">>, <<"b", "a", "n", "d", "a", "n", "a">>>>) THEN Return(<<"Scarf / Shawl">>)
    ELSE IF PnHas(pn, <<<<"m", "ö", "s", "s", "a">>, <<"m", "o", "s", "s", "a">>, <<"b", "e", "a", "n", "i", "e">>>>) THEN Return(<<"Hat">>)
    ELSE IF PnHas(pn, <<<<"k", "e", "p", "s">>, <<"b", "a", "s", "e", "b", "a", "l", "l", "k", "e", "p", "s">>, <<"c", "a", "p">>, <<"b", "u", "c", "k", "e", "t", " ", "h", "a", "t">>>>) THEN Return(<<"Cap">>)
    ELSE IF PnHas(pn, <<<<"b", "ä", "l", "t", "e">>, <<"b", "e", "l", "t">>>>) THEN Return(<<"Belt">>)
    ELSE NoReturn
  ELSE NoReturn

\* the Eton sub-mappings: an accessory that no keyword recognizes has no
\* QFix category
EtonSubMapping(first, pn) ==
  IF first = <<"a", "c", "c", "e", "s", "s", "o", "a", "r", "e", "r">> THEN
    IF PnHas(pn, <<<<"b", "a", "d", "s", "h", "o", "r", "t", "s">>, <<"s", "w", "i", "m", " ", "s", "h", "o", "r", "t", "s">>, <<"b", "a", "d", "b", "y", "x", "o", "r">>>>)
      THEN Return(<<"Trousers / Shorts">>)
    ELSE IF PnHas(pn, <<<<"s", "c", "a", "r", "f">>, <<"h", "a", "l", "s", "d", "u", "k">>, <<"b", "a", "n", "d", "a", "n", "a">>>>) THEN Return(<<"Scarf / Shawl">>)
    ELSE IF PnHas(pn, <<<<"m", "ö", "s", "s", "a">>, <<"m", "o", "s", "s", "a">>, <<"b", "e", "a", "n", "i", "e">>>>) THEN Return(<<"Hat">>)
    ELSE IF PnHas(pn, <<<<"k", "e", "p", "s">>, <<"b", "a", "s", "e", "b", "a", "l", "l", "k", "e", "p", "s">>, <<"c", "a", "p">>, <<"b", "u", "c", "k", "e", "t", " ", "h", "a", "t">>>>) THEN Return(<<"Cap">>)
    ELSE IF PnHas(pn, <<<<"b", "ä", "l", "t", "e">>, <<"b", "e", "l", "t">>>>) THEN Return(<<"Belt">>)
    ELSE Return(<<>>)
  ELSE NoReturn

\* for part in reversed(parts[1:]): sub = ACCESSORY_SUB_MAP.get(part)
AccessorySub(parts) ==
  LET hits == {i \in 2..Len(parts) : Get(ACCESSORY_SUB_MAP, parts[i]) # <<>>}
  IN  IF hits = {} THEN <<>> ELSE ACCESSORY_SUB_MAP[parts[MaxOf(hits)]]

\* the KappAhl sub-mappings
KappAhlSubMapping(first, parts) ==
  LET sub == parts[2]
      deep == Len(parts) > 1
      subpath == Join(Tail(parts), <<" ", ">", " ">>)
  IN  IF first \in {<<"b", "a", "d", "k", "l", "ä", "d", "e", "r">>, <<"b", "a", "d", "k", "l", "a", "d", "e", "r">>} /\ deep THEN
        IF Contains(subpath, <<"b", "i", "k", "i", "n", "i">>) THEN Return(<<"Bikini">>) ELSE Return(<<"Swimsuit">>)
      ELSE IF first \in {<<"y", "t", "t", "e", "r", "k", "l", "ä", "d", "e", "r">>, <<"y", "t", "t", "e", "r", "k", "l", "a", "d", "e", "r">>} /\ deep THEN
        IF AnyKeywordIn(<<<<"r", "e", "g", "n", "b", "y", "x", "o", "r">>, <<"s", "k", "a", "l", "b", "y", "x", "o", "r">>, <<"s", "k", "i", "d", "b", "y", "x", "o", "r">>, <<"ö", "v", "e", "r", "d", "r", "a", "g", "s", "b", "y", "x", "o", "r">>,
                          <<"o", "v", "e", "r", "d", "r", "a", "g", "s", "b", "y", "x", "o", "r">>>>, subpath) THEN Return(<<"Trousers">>)
        ELSE IF AnyKeywordIn(<<<<"o", "v", "e", "r", "a", "l", "l", "e", "r">>, <<"v", "i", "n", "t", "e", "r", "o", "v", "e", "r", "a", "l", "l", "e", "r">>>>, subpath)
          THEN Return(<<"Overall">>)
        ELSE IF Contains(subpath, <<"r", "e", "g", "n", "a", "c", "c", "e", "s", "s", "o", "a", "r", "e", "r">>) THEN Return(<<>>)
        ELSE IF Contains(subpath, <<"v", "ä", "s", "t", "a", "r">>) \/ Contains(subpath, <<"v", "a", "s", "t", "a", "r">>)
          THEN Return(<<"Unlined Jacket / Vest">>)
        ELSE Return(<<"Jacket">>)
      ELSE IF first \in {<<"j", "a", "c", "k", "o", "r", " ", "&", " ", "r", "o", "c", "k", "a", "r">>, <<"j", "a", "c", "k", "o", "r", " ", "&", " ", "k", "a", "p", "p", "o", "r">>} /\ deep THEN
        IF Contains(sub, <<"v", "ä", "s", "t", "a", "r">>) \/ Contains(sub, <<"v", "a", "s", "t", "a", "r">>)
        THEN Return(<<"Unlined Jacket / Vest">>) ELSE Return(<<"Jacket">>)
      ELSE IF first = <<"l", "o", "u", "n", "g", "e", "w", "e", "a", "r">> THEN
        IF deep THEN
          IF Contains(sub, <<"u", "n", "d", "e", "r", "d", "e", "l", "a", "r">>) THEN Return(<<"Trousers">>)
          ELSE IF AnyKeywordIn(<<<<"u", "n", "d", "e", "r", "s", "t", "ä", "l", "l">>, <<"u", "n", "d", "e", "r", "s", "t", "a", "l", "l">>>>, sub) THEN Return(<<"Midlayer">>)
          ELSE Return(<<"Sweatshirt / Hoodie">>)
        ELSE Return(<<"Trousers / Shorts">>)
      ELSE IF first = <<"s", "k", "o", "r", " ", "&", " ", "t", "o", "f", "f", "l", "o", "r">> /\ deep THEN
        IF AnyKeywordIn(<<<<"t", "o", "f", "f", "l", "o", "r">>, <<"s", "l", "i", "p", "p", "e", "r", "s">>>>, sub) THEN Return(<<"Other shoes">>)
        ELSE Return(<<"Sneakers">>)
      ELSE IF first \in {<<"t", "r", "ö", "j", "o", "r", " ", "&", " ", "k", "o", "f", "t", "o", "r">>, <<"t", "r", "ö", "j", "o", "r", " ", "&", " ", "c", "a", "r", "d", "i", "g", "a", "n", "s">>} /\ deep THEN
        IF AnyKeywordIn(<<<<"h", "o", "o", "d", "i", "e", "s">>, <<"h", "o", "o", "d", "i", "e">>, <<"s", "w", "e", "a", "t", "s", "h", "i", "r", "t">>>>, sub)
          THEN Return(<<"Sweatshirt / Hoodie">>)
        ELSE IF AnyKeywordIn(<<<<"s", "t", "i", "c", "k", "a", "d", "e", " ", "v", "ä", "s", "t", "a", "r">>, <<"v", "ä", "s", "t", "a", "r">>, <<"v", "a", "s", "t", "a", "r">>>>, sub)
          THEN Return(<<"Unlined Jacket / Vest">>)
        ELSE Return(<<"Knitted Jumper">>)
      ELSE IF first \in {<<"t", "r", "ä", "n", "i", "n", "g", "s", "k", "l", "ä", "d", "e", "r">>, <<"t", "r", "a", "n", "i", "n", "g", "s", "k", "l", "a", "d", "e", "r">>} /\ deep THEN
        IF AnyKeywordIn(<<<<"t", "i", "g", "h", "t", "s">>, <<"c", "y", "k", "e", "l", "b", "y", "x", "o", "r">>, <<"c", "y", "k", "e", "l", "b", "y", "x", "a">>, <<"l", "e", "g", "g", "i", "n", "g", "s">>, <<"b", "y", "x", "o", "r">>>>, sub)
          THEN Return(<<"Trousers">>)
        ELSE IF AnyKeywordIn(<<<<"s", "h", "o", "r", "t", "s">>, <<"c", "y", "k", "e", "l", "s", "h", "o", "r", "t", "s">>>>, sub)
          THEN Return(<<"Trousers / Shorts">>)
        ELSE IF AnyKeywordIn(<<<<"l", "i", "n", "n", "e">>, <<"t", "o", "p", "p">>, <<"s", "p", "o", "r", "t", "-", "b", "h">>, <<"b", "h">>>>, sub)
          THEN Return(<<"Top / T-shirt">>)
        ELSE Return(<<"Sweatshirt / Hoodie">>)
      ELSE IF first \in {<<"m", "a", "m", "m", "a", "k", "l", "ä", "d", "e", "r">>, <<"m", "a", "m", "m", "a", "k", "l", "a", "d", "e", "r">>} /\ deep THEN
        IF AnyKeywordIn(<<<<"t", "o", "p", "p", "a", "r">>, <<"t", "r", "o", "j", "o", "r">>, <<"b", "l", "u", "s", "a", "r">>, <<"l", "i", "n", "n", "e">>, <<"a", "m", "n", "i", "n", "g">>>>, sub)
          THEN Return(<<"Top / T-shirt">>)
        ELSE IF AnyKeywordIn(<<<<"k", "l", "ä", "n", "n", "i", "n", "g", "a", "r">>, <<"k", "l", "a", "n", "n", "i", "n", "g", "a", "r">>>>, sub)
          THEN Return(<<"Skirt / Dress">>)
        ELSE Return(<<"Trousers">>)
      ELSE IF first = <<"b", "a", "s", "p", "l", "a", "g", "g">> /\ deep THEN
        IF AnyKeywordIn(<<<<"s", "h", "o", "r", "t", "s">>, <<"b", "i", "k", "e", "r">>, <<"c", "y", "k", "e", "l">>>>, sub)
          THEN Return(<<"Trousers / Shorts">>)
        ELSE IF AnyKeywordIn(<<<<"l", "e", "g", "g", "i", "n", "g", "s">>, <<"t", "i", "g", "h", "t", "s">>, <<"b", "y", "x", "o", "r">>>>, sub)
          THEN Return(<<"Trousers">>)
        ELSE IF Contains(sub, <<"s", "w", "e", "a", "t", "s", "h", "i", "r", "t">>) THEN Return(<<"Sweatshirt / Hoodie">>)
        ELSE Return(<<"Top / T-shirt">>)
      ELSE IF first = <<"a", "c", "c", "e", "s", "s", "o", "a", "r", "e", "r">> /\ deep THEN Return(AccessorySub(parts))
      ELSE NoReturn

\* the brand-specific sub-mappings; a brand enters only its own block
BrandSubMapping(brand, first, parts, pn) ==
  IF brand = "ginatricot" THEN GinaTricotSubMapping(first, parts)
  ELSE IF brand = "lindex" THEN LindexSubMapping(first, pn)
  ELSE IF brand = "eton" THEN EtonSubMapping(first, pn)
  ELSE IF brand = "kappahl" THEN KappAhlSubMapping(first, parts)
  ELSE NoReturn

\* the variant of BrandExactOverride that checks the first segment before
\* the full joined path
BrandExactOverride_FirstSegmentFirst(rules, brand, parts) ==
  LET brand_map == IF brand # "" THEN Get(rules.BRAND_CLOTHING_TYPE_OVERRIDES, brand) ELSE <<>>
      full_key == Join(parts, <<" ", ">", " ">>)
  IN  IF parts[1] \in DOMAIN brand_map THEN Return(brand_map[parts[1]])
      ELSE IF full_key \in DOMAIN brand_map THEN Return(brand_map[full_key])
      ELSE NoReturn

\* the brand exact override: the full joined path first, then the first
\* segment; brand "" is None
BrandExactOverride(rules, brand, parts) ==
  LET brand_map == IF brand # "" THEN Get(rules.BRAND_CLOTHING_TYPE_OVERRIDES, brand) ELSE <<>>
      full_key == Join(parts, <<" ", ">", " ">>)
  IN  IF full_key \in DOMAIN brand_map THEN Return(brand_map[full_key])
      ELSE IF parts[1] \in DOMAIN brand_map THEN Return(brand_map[parts[1]])
      ELSE NoReturn

\* the steps after the brand blocks: global exact map, brand keyword
\* override, global keyword fallback
GlobalChain(rules, kappahl_clothing_type, brand, first) ==
  LET result == Get(rules.CLOTHING_TYPE_MAP, first)
      brand_keywords == IF brand # "" THEN Get(rules.BRAND_KEYWORD_CLOTHING_OVERRIDES, brand)
                        ELSE <<>>
      full == Lower(kappahl_clothing_type)
  IN  IF result # <<>> THEN result
      ELSE IF FirstKeywordMatch(brand_keywords, full) # <<>>
        THEN FirstKeywordMatch(brand_keywords, full)
      ELSE IF first \notin DOMAIN rules.CLOTHING_TYPE_MAP
        THEN FirstKeywordMatch(rules.KEYWORD_CLOTHING_MAP, full)
      ELSE <<>>

\* map_clothing_type(kappahl_clothing_type, brand, product_name, description)
\* <<>> is None, <<t>> the canonical type t
map_clothing_type(rules, kappahl_clothing_type, brand, product_name, description) ==
  LET pn == ProductText(product_name, description)
      parts == PathParts(kappahl_clothing_type)
  IN  IF kappahl_clothing_type = <<>> THEN
        IF pn # <<>> THEN FirstKeywordMatch(rules.KEYWORD_CLOTHING_MAP, pn) ELSE <<>>
      ELSE IF parts = <<>> THEN <<>>
      ELSE IF BrandExactOverride(rules, brand, parts).returned
        THEN BrandExactOverride(rules, brand, parts).value
      ELSE IF BrandSubMapping(brand, parts[1], parts, pn).returned
        THEN BrandSubMapping(brand, parts[1], parts, pn).value
      ELSE GlobalChain(rules, kappahl_clothing_type, brand, parts[1])

(***************************************************************************)
(* api.py: admin mutations of the rule tables                              *)
(*                                                                         *)
(* The rule tables travel as one record, rules, whose fields carry the     *)
(* names of the module-level tables of mapping.py.  A rejected request     *)
(* (status 400, or an entry of "errors") leaves the tables as they are.    *)
(***************************************************************************)
\* BRAND_ROUTES: the known brand slugs
BRAND_ROUTES == {"kappahl", "ginatricot", "eton", "nudie", "lindex"}

valid_materials ==
  {"Standard textile", "Linen/Wool", "Cashmere", "Silk", "Leather/Suede", "Down", "Fur",
   "Other/Unsure"}

\* to.strip() on the target names of the model
StripName(to) ==
  CASE to = " Silk " -> "Silk"
    [] to = " Down " -> "Down"
    [] to = " Cap " -> "Cap"
    [] OTHER -> to

\* from.strip().lower(): a material key is a token sequence, a clothing-type
\* key a string
NormFrom(rule_type, from) ==
  IF rule_type = "material" THEN LowerText(from) ELSE Lower(Strip(from))

\* BRAND_X.setdefault(brand, {})[key] = value
PutBrand(brand_maps, brand, key, value) ==
  (brand :> Put(Get(brand_maps, brand), key, value)) @@ brand_maps

\* BRAND_X.setdefault(brand, []).append(entry)
AppendBrand(brand_lists, brand, entry) ==
  (brand :> Append(Get(brand_lists, brand), entry)) @@ brand_lists

\* POST /unmapped/add: a global exact rule; "" is a missing field
add_mapping(rules, mapping_type, from, to) ==
  LET from_val == NormFrom(mapping_type, from)
      to_val   == StripName(to)
  IN  IF mapping_type = "" \/ from_val = <<>> \/ to_val = "" THEN rules
      ELSE IF mapping_type = "clothing_type" THEN
        IF to_val \notin DOMAIN QFIX_CLOTHING_TYPE_IDS THEN rules
        ELSE [rules EXCEPT !.CLOTHING_TYPE_MAP = Put(@, from_val, <<to_val>>)]
      ELSE IF mapping_type = "material" THEN
        IF to_val \notin valid_materials THEN rules
        ELSE [rules EXCEPT !.MATERIAL_MAP = Put(@, from_val, <<to_val>>)]
      ELSE rules

\* the variant of ApplySuggestion that stores a material target unchecked
ApplySuggestion_NoMaterialCheck(rules, brand, s) ==
  LET rule_type == IF s.rule_type = "" THEN "clothing_type" ELSE s.rule_type
      from_val  == NormFrom(rule_type, s.from)
      to_val    == StripName(s.to)
  IN  IF rule_type = "material" /\ from_val # <<>> /\ to_val # "" THEN
        IF brand # ""
        THEN [rules EXCEPT !.BRAND_MATERIAL_OVERRIDES = PutBrand(@, brand, from_val, <<to_val>>)]
        ELSE [rules EXCEPT !.MATERIAL_MAP = Put(@, from_val, <<to_val>>)]
      ELSE rules

\* the variant of ApplySuggestion that stores a clothing-type target
\* unchecked
ApplySuggestion_NoTypeCheck(rules, brand, s) ==
  LET rule_type  == IF s.rule_type = "" THEN "clothing_type" ELSE s.rule_type
      match_type == IF s.match_type = "" THEN "exact" ELSE s.match_type
      from_val   == NormFrom(rule_type, s.from)
      to_val     == StripName(s.to)
  IN  IF from_val = <<>> \/ to_val = "" THEN rules
      ELSE IF rule_type = "clothing_type" THEN
        IF brand # "" THEN
          IF match_type = "keyword"
          THEN [rules EXCEPT !.BRAND_KEYWORD_CLOTHING_OVERRIDES =
                               AppendBrand(@, brand, <<from_val, to_val>>)]
          ELSE [rules EXCEPT !.BRAND_CLOTHING_TYPE_OVERRIDES =
                               PutBrand(@, brand, from_val, <<to_val>>)]
        ELSE
          IF match_type = "keyword"
          THEN [rules EXCEPT !.KEYWORD_CLOTHING_MAP = Append(@, <<from_val, to_val>>)]
          ELSE [rules EXCEPT !.CLOTHING_TYPE_MAP = Put(@, from_val, <<to_val>>)]
      ELSE IF rule_type = "material" THEN
        IF to_val \notin valid_materials THEN rules
        ELSE IF brand # ""
        THEN [rules EXCEPT !.BRAND_MATERIAL_OVERRIDES = PutBrand(@, brand, from_val, <<to_val>>)]
        ELSE [rules EXCEPT !.MATERIAL_MAP = Put(@, from_val, <<to_val>>)]
      ELSE rules

\* one iteration of the loop of remap_apply; an absent rule_type or
\* match_type ("") takes its default
ApplySuggestion(rules, brand, s) ==
  LET rule_type  == IF s.rule_type = "" THEN "clothing_type" ELSE s.rule_type
      match_type == IF s.match_type = "" THEN "exact" ELSE s.match_type
      from_val   == NormFrom(rule_type, s.from)
      to_val     == StripName(s.to)
  IN  IF from_val = <<>> \/ to_val = "" THEN rules
      ELSE IF rule_type = "clothing_type" THEN
        IF to_val \notin DOMAIN QFIX_CLOTHING_TYPE_IDS THEN rules
        ELSE IF brand # "" THEN
          IF match_type = "keyword"
          THEN [rules EXCEPT !.BRAND_KEYWORD_CLOTHING_OVERRIDES =
                               AppendBrand(@, brand, <<from_val, to_val>>)]
          ELSE [rules EXCEPT !.BRAND_CLOTHING_TYPE_OVERRIDES =
                               PutBrand(@, brand, from_val, <<to_val>>)]
        ELSE
          IF match_type = "keyword"
          THEN [rules EXCEPT !.KEYWORD_CLOTHING_MAP = Append(@, <<from_val, to_val>>)]
          ELSE [rules EXCEPT !.CLOTHING_TYPE_MAP = Put(@, from_val, <<to_val>>)]
      ELSE IF rule_type = "material" THEN
        IF to_val \notin valid_materials THEN rules
        ELSE IF brand # ""
        THEN [rules EXCEPT !.BRAND_MATERIAL_OVERRIDES = PutBrand(@, brand, from_val, <<to_val>>)]
        ELSE [rules EXCEPT !.MATERIAL_MAP = Put(@, from_val, <<to_val>>)]
      ELSE rules

RECURSIVE ApplySuggestions(_, _, _)
\* for s in data["suggestions"]
ApplySuggestions(rules, brand, suggestions) ==
  IF suggestions = <<>> THEN rules
  ELSE ApplySuggestions(ApplySuggestion(rules, brand, Head(suggestions)), brand,
                        Tail(suggestions))

\* POST /remap/apply: brand "" is a request without a brand
remap_apply(rules, brand, suggestions) ==
  IF brand # "" /\ brand \notin BRAND_ROUTES THEN rules
  ELSE ApplySuggestions(rules, brand, suggestions)

\* the answer of POST /unmapped/add: HTTP status, error text, and the valid
\* names it lists (sorted(...) of a set of names: the set)
AdminAnswer(status, error, types, materials) ==
  [status |-> status, error |-> error, valid_types |-> types, valid_materials |-> materials]

\* add_mapping that answers a bad target without listing the valid names
add_mapping_response_Terse(mapping_type, from, to) ==
  LET from_val == NormFrom(mapping_type, from)
      to_val   == StripName(to)
  IN  IF mapping_type = "" \/ from_val = <<>> \/ to_val = ""
      THEN AdminAnswer(400, "Required fields: type, from, to", {}, {})
      ELSE IF mapping_type = "clothing_type" THEN
        IF to_val \notin DOMAIN QFIX_CLOTHING_TYPE_IDS
        THEN AdminAnswer(400, "Invalid QFix clothing type", {}, {})
        ELSE AdminAnswer(200, "", {}, {})
      ELSE IF mapping_type = "material" THEN
        IF to_val \notin valid_materials
        THEN AdminAnswer(400, "Invalid QFix material", {}, {})
        ELSE AdminAnswer(200, "", {}, {})
      ELSE AdminAnswer(400, "type must be 'clothing_type' or 'material'", {}, {})

\* POST /unmapped/add: what it answers
add_mapping_response(mapping_type, from, to) ==
  LET from_val == NormFrom(mapping_type, from)
      to_val   == StripName(to)
  IN  IF mapping_type = "" \/ from_val = <<>> \/ to_val = ""
      THEN AdminAnswer(400, "Required fields: type, from, to", {}, {})
      ELSE IF mapping_type = "clothing_type" THEN
        IF to_val \notin DOMAIN QFIX_CLOTHING_TYPE_IDS
        THEN AdminAnswer(400, "Invalid QFix clothing type", DOMAIN QFIX_CLOTHING_TYPE_IDS, {})
        ELSE AdminAnswer(200, "", {}, {})
      ELSE IF mapping_type = "material" THEN
        IF to_val \notin valid_materials
        THEN AdminAnswer(400, "Invalid QFix material", {}, valid_materials)
        ELSE AdminAnswer(200, "", {}, {})
      ELSE AdminAnswer(400, "type must be 'clothing_type' or 'material'", {}, {})

\* what one iteration of the loop of remap_apply appends to "applied" or to
\* "errors"; an error text that quotes the target is <<text, target>>
SuggestionOutcome(brand, s) ==
  LET rule_type  == IF s.rule_type = "" THEN "clothing_type" ELSE s.rule_type
      match_type == IF s.match_type = "" THEN "exact" ELSE s.match_type
      from_val   == NormFrom(rule_type, s.from)
      to_val     == StripName(s.to)
      Applied(type) == [applied |-> TRUE,
                        entry |-> [from |-> from_val, to |-> to_val, type |-> type,
                                   brand |-> brand]]
      Error(error)  == [applied |-> FALSE, entry |-> [from |-> from_val, error |-> error]]
  IN  IF from_val = <<>> \/ to_val = "" THEN Error(<<"Missing from or to">>)
      ELSE IF rule_type = "clothing_type" THEN
        IF to_val \notin DOMAIN QFIX_CLOTHING_TYPE_IDS
        THEN Error(<<"Invalid QFix type", to_val>>)
        ELSE IF brand # "" THEN
          IF match_type = "keyword" THEN Applied("brand_keyword_rule")
          ELSE Applied("brand_exact_rule")
        ELSE
          IF match_type = "keyword" THEN Applied("keyword_rule") ELSE Applied("exact_rule")
      ELSE IF rule_type = "material" THEN
        IF to_val \notin valid_materials THEN Error(<<"Invalid material", to_val>>)
        ELSE IF brand # "" THEN Applied("brand_material_rule")
        ELSE Applied("material_rule")
      ELSE Error(<<"Invalid rule_type", rule_type>>)

\* POST /remap/apply: what it answers
remap_apply_response(brand, suggestions) ==
  IF brand # "" /\ brand \notin BRAND_ROUTES
  THEN [status |-> 400, error |-> "Unknown brand", applied |-> <<>>, errors |-> <<>>]
  ELSE LET outcomes == [i \in 1..Len(suggestions) |-> SuggestionOutcome(brand, suggestions[i])]
           applied  == SelectSeq(outcomes, LAMBDA o : o.applied)
           errors   == SelectSeq(outcomes, LAMBDA o : ~o.applied)
       IN  [status |-> 200, error |-> "",
            applied |-> [i \in 1..Len(applied) |-> applied[i].entry],
            errors |-> [i \in 1..Len(errors) |-> errors[i].entry]]

(***************************************************************************)
(* mapping.py, mapping_v2.py: tables of the catalog ID resolver            *)
(***************************************************************************)
\* QFIX_CLOTHING_TYPE_IDS_LEGACY: canonical clothing type -> QFix L3 id of the legacy catalog
QFIX_CLOTHING_TYPE_IDS_LEGACY ==
  ("Jacket" :> 173) @@
  ("Unlined Jacket / Vest" :> 62) @@
  ("Lined Jacket / Vest" :> 61) @@
  ("Coat" :> 60) @@
  ("Top / T-shirt" :> 90) @@
  ("T-shirt" :> 163) @@
  ("Shirt / Blouse" :> 89) @@
  ("Knitted Jumper" :> 193) @@
  ("Sweater" :> 162) @@
  ("Sweatshirt / Hoodie" :> 196) @@
  ("Midlayer" :> 161) @@
  ("Trousers" :> 174) @@
  ("Trousers / Shorts" :> 104) @@
  ("Skirt / Dress" :> 66) @@
  ("Suit" :> 86) @@
  ("Swimsuit" :> 168) @@
  ("Bikini" :> 201) @@
  ("Swimming trunks" :> 169) @@
  ("Underwear" :> 171) @@
  ("Overall" :> 175) @@
  ("Overalls" :> 160) @@
  ("Hat" :> 98) @@
  ("Cap" :> 99) @@
  ("Gloves" :> 100) @@
  ("Scarf / Shawl" :> 101) @@
  ("Belt" :> 102) @@
  ("Handbags" :> 123) @@
  ("Other" :> 105)

\* VALID_MATERIAL_IDS_LEGACY: clothing type id -> (material id, material name) pairs in dict order
VALID_MATERIAL_IDS_LEGACY ==
  (60 :> <<<<69, "Standard textile">>, <<71, "Leather/Suede">>, <<72, "Fur">>, <<73, "Other/Unsure">>>>) @@
  (61 :> <<<<69, "Standard textile">>, <<176, "Down">>, <<71, "Leather/Suede">>, <<72, "Fur">>, <<83, "Highvis">>, <<73, "Other/Unsure">>>>) @@
  (62 :> <<<<69, "Standard textile">>, <<71, "Leather/Suede">>, <<166, "Linen/Wool">>, <<143, "Galloon">>, <<83, "Highvis">>, <<73, "Other/Unsure">>>>) @@
  (66 :> <<<<69, "Standard textile">>, <<71, "Leather/Suede">>, <<166, "Linen/Wool">>, <<213, "Silk">>, <<73, "Other/Unsure">>>>) @@
  (86 :> <<<<69, "Standard textile">>, <<166, "Linen/Wool">>, <<159, "Cashmere">>, <<73, "Other/Unsure">>>>) @@
  (89 :> <<<<69, "Standard textile">>, <<166, "Linen/Wool">>, <<213, "Silk">>, <<73, "Other/Unsure">>>>) @@
  (90 :> <<<<69, "Standard textile">>, <<73, "Other/Unsure">>>>) @@
  (98 :> <<<<69, "Standard textile">>, <<72, "Fur">>, <<73, "Other/Unsure">>>>) @@
  (99 :> <<<<69, "Standard textile">>, <<71, "Leather/Suede">>, <<83, "Highvis">>, <<73, "Other/Unsure">>>>) @@
  (100 :> <<<<69, "Standard textile">>, <<71, "Leather/Suede">>, <<213, "Silk">>, <<73, "Other/Unsure">>>>) @@
  (101 :> <<<<69, "Standard textile">>, <<166, "Linen/Wool">>, <<159, "Cashmere">>, <<72, "Fur">>, <<213, "Silk">>, <<73, "Other/Unsure">>>>) @@
  (102 :> <<<<69, "Standard textile">>, <<71, "Leather/Suede">>, <<73, "Other/Unsure">>>>) @@
  (104 :> <<<<69, "Standard textile">>, <<73, "Other/Unsure">>>>) @@
  (105 :> <<<<166, "Linen/Wool">>, <<213, "Silk">>, <<214, "Lace">>, <<215, "Tulle">>, <<73, "Other/Unsure">>>>) @@
  (123 :> <<<<69, "Standard textile">>, <<71, "Leather/Suede">>, <<73, "Other/Unsure">>>>) @@
  (142 :> <<<<69, "Standard textile">>, <<83, "Highvis">>, <<73, "Other/Unsure">>>>) @@
  (160 :> <<<<69, "Standard textile">>, <<176, "Down">>, <<83, "Highvis">>, <<144, "Flame resistant">>, <<73, "Other/Unsure">>>>) @@
  (161 :> <<<<69, "Standard textile">>, <<166, "Linen/Wool">>, <<73, "Other/Unsure">>>>) @@
  (162 :> <<<<69, "Standard textile">>, <<73, "Other/Unsure">>>>) @@
  (163 :> <<<<69, "Standard textile">>, <<166, "Linen/Wool">>, <<73, "Other/Unsure">>>>) @@
  (168 :> <<<<69, "Standard textile">>, <<213, "Silk">>, <<73, "Other/Unsure">>>>) @@
  (169 :> <<<<69, "Standard textile">>, <<213, "Silk">>, <<73, "Other/Unsure">>>>) @@
  (171 :> <<<<69, "Standard textile">>, <<166, "Linen/Wool">>, <<213, "Silk">>, <<73, "Other/Unsure">>>>) @@
  (173 :> <<<<69, "Standard textile">>, <<176, "Down">>, <<71, "Leather/Suede">>, <<73, "Other/Unsure">>>>) @@
  (174 :> <<<<69, "Standard textile">>, <<176, "Down">>, <<71, "Leather/Suede">>, <<73, "Other/Unsure">>>>) @@
  (175 :> <<<<69, "Standard textile">>, <<176, "Down">>, <<71, "Leather/Suede">>, <<83, "Highvis">>, <<73, "Other/Unsure">>>>) @@
  (193 :> <<<<69, "Standard textile">>, <<166, "Linen/Wool">>, <<73, "Other/Unsure">>>>)

\* QFIX_SUBCATEGORY_IDS_LEGACY: subcategory -> QFix L2 id of the legacy catalog
QFIX_SUBCATEGORY_IDS_LEGACY ==
  ("Outerwear" :> 54) @@
  ("Women's Clothing" :> 55) @@
  ("Men's Clothing" :> 56) @@
  ("Children's Clothing" :> 58) @@
  ("Accessories" :> 57) @@
  ("Swimwear / Wet suits" :> 167)

\* the variant of VALID_MATERIAL_IDS that lacks the sets of the legacy ids no
\* clothing-type name of the current catalog has by default
VALID_MATERIAL_IDS_RetiredIdsDropped ==
  LET kept == {id \in DOMAIN VALID_MATERIAL_IDS_LEGACY :
                 \E n \in DOMAIN QFIX_CLOTHING_TYPE_IDS : QFIX_CLOTHING_TYPE_IDS[n] = id}
  IN  [id \in kept |-> VALID_MATERIAL_IDS_LEGACY[id]]

\* VALID_MATERIAL_IDS: clothing type id -> (material id, material name) pairs in dict order
VALID_MATERIAL_IDS ==
  (60 :> <<<<69, "Standard textile">>, <<71, "Leather/Suede">>, <<72, "Fur">>, <<73, "Other/Unsure">>>>) @@
  (61 :> <<<<69, "Standard textile">>, <<176, "Down">>, <<71, "Leather/Suede">>, <<72, "Fur">>, <<83, "Highvis">>, <<73, "Other/Unsure">>>>) @@
  (62 :> <<<<69, "Standard textile">>, <<71, "Leather/Suede">>, <<166, "Linen/Wool">>, <<143, "Galloon">>, <<83, "Highvis">>, <<73, "Other/Unsure">>>>) @@
  (66 :> <<<<69, "Standard textile">>, <<71, "Leather/Suede">>, <<166, "Linen/Wool">>, <<213, "Silk">>, <<73, "Other/Unsure">>>>) @@
  (78 :> <<<<69, "Standard textile">>, <<176, "Down">>, <<73, "Other/Unsure">>>>) @@
  (80 :> <<<<69, "Standard textile">>, <<176, "Down">>, <<73, "Other/Unsure">>>>) @@
  (81 :> <<<<69, "Standard textile">>, <<176, "Down">>, <<143, "Galloon">>, <<83, "Highvis">>, <<73, "Other/Unsure">>>>) @@
  (82 :> <<<<69, "Standard textile">>, <<83, "Highvis">>, <<144, "Flame resistant">>, <<73, "Other/Unsure">>>>) @@
  (84 :> <<<<69, "Standard textile">>, <<166, "Linen/Wool">>, <<73, "Other/Unsure">>>>) @@
  (85 :> <<<<69, "Standard textile">>, <<166, "Linen/Wool">>, <<159, "Cashmere">>, <<73, "Other/Unsure">>>>) @@
  (86 :> <<<<69, "Standard textile">>, <<166, "Linen/Wool">>, <<159, "Cashmere">>, <<73, "Other/Unsure">>>>) @@
  (87 :> <<<<69, "Standard textile">>, <<166, "Linen/Wool">>, <<159, "Cashmere">>, <<73, "Other/Unsure">>>>) @@
  (88 :> <<<<69, "Standard textile">>, <<73, "Other/Unsure">>>>) @@
  (89 :> <<<<69, "Standard textile">>, <<166, "Linen/Wool">>, <<213, "Silk">>, <<73, "Other/Unsure">>>>) @@
  (90 :> <<<<69, "Standard textile">>, <<73, "Other/Unsure">>>>) @@
  (91 :> <<<<69, "Standard textile">>, <<166, "Linen/Wool">>, <<73, "Other/Unsure">>>>) @@
  (92 :> <<<<69, "Standard textile">>, <<166, "Linen/Wool">>, <<73, "Other/Unsure">>>>) @@
  (93 :> <<<<69, "Standard textile">>, <<166, "Linen/Wool">>, <<73, "Other/Unsure">>>>) @@
  (94 :> <<<<69, "Standard textile">>, <<166, "Linen/Wool">>, <<73, "Other/Unsure">>>>) @@
  (95 :> <<<<69, "Standard textile">>, <<166, "Linen/Wool">>, <<159, "Cashmere">>, <<73, "Other/Unsure">>>>) @@
  (96 :> <<<<69, "Standard textile">>, <<166, "Linen/Wool">>, <<159, "Cashmere">>, <<213, "Silk">>, <<73, "Other/Unsure">>>>) @@
  (98 :> <<<<69, "Standard textile">>, <<72, "Fur">>, <<73, "Other/Unsure">>>>) @@
  (99 :> <<<<69, "Standard textile">>, <<71, "Leather/Suede">>, <<83, "Highvis">>, <<73, "Other/Unsure">>>>) @@
  (100 :> <<<<69, "Standard textile">>, <<71, "Leather/Suede">>, <<213, "Silk">>, <<73, "Other/Unsure">>>>) @@
  (101 :> <<<<69, "Standard textile">>, <<166, "Linen/Wool">>, <<159, "Cashmere">>, <<72, "Fur">>, <<213, "Silk">>, <<73, "Other/Unsure">>>>) @@
  (102 :> <<<<69, "Standard textile">>, <<71, "Leather/Suede">>, <<73, "Other/Unsure">>>>) @@
  (103 :> <<<<69, "Standard textile">>, <<166, "Linen/Wool">>, <<73, "Other/Unsure">>>>) @@
  (104 :> <<<<69, "Standard textile">>, <<73, "Other/Unsure">>>>) @@
  (105 :> <<<<166, "Linen/Wool">>, <<213, "Silk">>, <<214, "Lace">>, <<215, "Tulle">>, <<73, "Other/Unsure">>>>) @@
  (110 :> <<<<189, "Standard textile">>, <<187, "Leather">>, <<191, "Other/Unsure">>>>) @@
  (111 :> <<<<187, "Leather">>, <<188, "Suede">>, <<191, "Other/Unsure">>>>) @@
  (112 :> <<<<189, "Standard textile">>, <<188, "Suede">>, <<191, "Other/Unsure">>>>) @@
  (113 :> <<<<189, "Standard textile">>, <<187, "Leather">>, <<188, "Suede">>, <<191, "Other/Unsure">>>>) @@
  (114 :> <<<<187, "Leather">>, <<188, "Suede">>, <<191, "Other/Unsure">>>>) @@
  (115 :> <<<<189, "Standard textile">>, <<188, "Suede">>, <<191, "Other/Unsure">>>>) @@
  (116 :> <<<<187, "Leather">>, <<188, "Suede">>, <<191, "Other/Unsure">>>>) @@
  (121 :> <<<<69, "Standard textile">>, <<71, "Leather/Suede">>, <<73, "Other/Unsure">>>>) @@
  (122 :> <<<<69, "Standard textile">>, <<71, "Leather/Suede">>, <<73, "Other/Unsure">>>>) @@
  (123 :> <<<<69, "Standard textile">>, <<71, "Leather/Suede">>, <<73, "Other/Unsure">>>>) @@
  (124 :> <<<<69, "Standard textile">>, <<71, "Leather/Suede">>, <<73, "Other/Unsure">>>>) @@
  (125 :> <<<<69, "Standard textile">>, <<71, "Leather/Suede">>, <<73, "Other/Unsure">>>>) @@
  (138 :> <<<<189, "Standard textile">>, <<187, "Leather">>, <<191, "Other/Unsure">>>>) @@
  (140 :> <<<<189, "Standard textile">>, <<187, "Leather">>, <<191, "Other/Unsure">>>>) @@
  (141 :> <<<<189, "Standard textile">>, <<187, "Leather">>, <<188, "Suede">>, <<191, "Other/Unsure">>>>) @@
  (142 :> <<<<69, "Standard textile">>, <<83, "Highvis">>, <<73, "Other/Unsure">>>>) @@
  (145 :> <<<<189, "Standard textile">>, <<187, "Leather">>, <<191, "Other/Unsure">>>>) @@
  (146 :> <<<<189, "Standard textile">>, <<187, "Leather">>, <<188, "Suede">>, <<191, "Other/Unsure">>>>) @@
  (147 :> <<<<190, "Galloon">>, <<191, "Other/Unsure">>>>) @@
  (148 :> <<<<190, "Galloon">>, <<191, "Other/Unsure">>>>) @@
  (149 :> <<<<190, "Galloon">>, <<191, "Other/Unsure">>>>) @@
  (150 :> <<<<190, "Galloon">>, <<191, "Other/Unsure">>>>) @@
  (160 :> <<<<69, "Standard textile">>, <<176, "Down">>, <<83, "Highvis">>, <<144, "Flame resistant">>, <<73, "Other/Unsure">>>>) @@
  (161 :> <<<<69, "Standard textile">>, <<166, "Linen/Wool">>, <<73, "Other/Unsure">>>>) @@
  (162 :> <<<<69, "Standard textile">>, <<73, "Other/Unsure">>>>) @@
  (163 :> <<<<69, "Standard textile">>, <<166, "Linen/Wool">>, <<73, "Other/Unsure">>>>) @@
  (164 :> <<<<189, "Standard textile">>, <<187, "Leather">>, <<188, "Suede">>, <<191, "Other/Unsure">>>>) @@
  (165 :> <<<<189, "Standard textile">>, <<187, "Leather">>, <<188, "Suede">>, <<191, "Other/Unsure">>>>) @@
  (168 :> <<<<69, "Standard textile">>, <<213, "Silk">>, <<73, "Other/Unsure">>>>) @@
  (169 :> <<<<69, "Standard textile">>, <<213, "Silk">>, <<73, "Other/Unsure">>>>) @@
  (170 :> <<<<69, "Standard textile">>, <<73, "Other/Unsure">>>>) @@
  (171 :> <<<<69, "Standard textile">>, <<166, "Linen/Wool">>, <<213, "Silk">>, <<73, "Other/Unsure">>>>) @@
  (173 :> <<<<69, "Standard textile">>, <<176, "Down">>, <<71, "Leather/Suede">>, <<73, "Other/Unsure">>>>) @@
  (174 :> <<<<69, "Standard textile">>, <<176, "Down">>, <<71, "Leather/Suede">>, <<73, "Other/Unsure">>>>) @@
  (175 :> <<<<69, "Standard textile">>, <<176, "Down">>, <<71, "Leather/Suede">>, <<83, "Highvis">>, <<73, "Other/Unsure">>>>) @@
  (182 :> <<<<189, "Standard textile">>, <<187, "Leather">>, <<191, "Other/Unsure">>>>) @@
  (183 :> <<<<189, "Standard textile">>, <<187, "Leather">>, <<191, "Other/Unsure">>>>) @@
  (185 :> <<<<69, "Standard textile">>, <<143, "Galloon">>, <<83, "Highvis">>, <<73, "Other/Unsure">>>>) @@
  (193 :> <<<<69, "Standard textile">>, <<166, "Linen/Wool">>, <<73, "Other/Unsure">>>>) @@
  (194 :> <<<<69, "Standard textile">>, <<73, "Other/Unsure">>>>) @@
  (195 :> <<<<69, "Standard textile">>, <<166, "Linen/Wool">>, <<73, "Other/Unsure">>>>) @@
  (196 :> <<<<69, "Standard textile">>, <<73, "Other/Unsure">>>>) @@
  (198 :> <<<<69, "Standard textile">>, <<176, "Down">>, <<83, "Highvis">>, <<144, "Flame resistant">>, <<73, "Other/Unsure">>>>) @@
  (199 :> <<<<69, "Standard textile">>, <<166, "Linen/Wool">>, <<73, "Other/Unsure">>>>) @@
  (200 :> <<<<69, "Standard textile">>, <<71, "Leather/Suede">>, <<166, "Linen/Wool">>, <<72, "Fur">>, <<144, "Flame resistant">>, <<73, "Other/Unsure">>>>) @@
  (201 :> <<<<69, "Standard textile">>, <<213, "Silk">>, <<73, "Other/Unsure">>>>) @@
  (202 :> <<<<71, "Leather/Suede">>, <<166, "Linen/Wool">>, <<83, "Highvis">>, <<144, "Flame resistant">>, <<73, "Other/Unsure">>>>) @@
  (203 :> <<<<71, "Leather/Suede">>, <<83, "Highvis">>, <<144, "Flame resistant">>, <<73, "Other/Unsure">>>>) @@
  (205 :> <<<<189, "Standard textile">>, <<187, "Leather">>, <<188, "Suede">>, <<191, "Other/Unsure">>>>) @@
  (206 :> <<<<189, "Standard textile">>, <<187, "Leather">>, <<188, "Suede">>>>)

\* QFIX_SUBCATEGORY_IDS: subcategory -> QFix L2 id
QFIX_SUBCATEGORY_IDS ==
  ("Outerwear" :> 54) @@
  ("Women's Clothing" :> 55) @@
  ("Men's Clothing" :> 56) @@
  ("Accessories" :> 57) @@
  ("Children's Clothing" :> 58) @@
  ("Workwear" :> 59) @@
  ("Backpack" :> 75) @@
  ("Men's Shoes" :> 106) @@
  ("Women's Shoes" :> 107) @@
  ("Children's Shoes" :> 108) @@
  ("Workwear Shoes" :> 109) @@
  ("Briefcase" :> 117) @@
  ("Handbags" :> 118) @@
  ("Larger bag / Duffel" :> 119) @@
  ("Weekend Bag" :> 120) @@
  ("Handmade carpet" :> 126) @@
  ("Other Carpet" :> 127) @@
  ("Swimwear / Wet suits" :> 167) @@
  ("Protective / MC wear" :> 172) @@
  ("Carpet with rubber bottom" :> 177) @@
  ("Protective / MC shoes" :> 181) @@
  ("Riding boots" :> 204)

\* CATEGORY_MAP: lowercased category -> subcategory
CATEGORY_MAP ==
  (<<"d", "a", "m">> :> "Women's Clothing") @@
  (<<"h", "e", "r", "r">> :> "Men's Clothing") @@
  (<<"b", "a", "r", "n">> :> "Children's Clothing") @@
  (<<"b", "a", "b", "y">> :> "Children's Clothing") @@
  (<<"w", "o", "m", "e", "n">> :> "Women's Clothing") @@
  (<<"m", "e", "n">> :> "Men's Clothing") @@
  (<<"m", "e", "n", "'", "s", " ", "j", "e", "a", "n", "s">> :> "Men's Clothing") @@
  (<<"w", "o", "m", "e", "n", "'", "s", " ", "j", "e", "a", "n", "s">> :> "Women's Clothing") @@
  (<<"k", "i", "d", "s">> :> "Children's Clothing") @@
  (<<"j", "e", "a", "n", "s">> :> "Men's Clothing") @@
  (<<"b", "u", "s", "i", "n", "e", "s", "s", "k", "j", "o", "r", "t", "o", "r">> :> "Men's Clothing") @@
  (<<"c", "a", "s", "u", "a", "l", "s", "k", "j", "o", "r", "t", "o", "r">> :> "Men's Clothing") @@
  (<<"a", "c", "c", "e", "s", "s", "o", "a", "r", "e", "r">> :> "Accessories") @@
  (<<"u", "n", "d", "e", "r", "k", "l", "a", "d", "e", "r">> :> "Women's Clothing")

\* _CLOTHING_TYPE_OVERRIDES: subcategory -> canonical clothing type -> id
CLOTHING_TYPE_OVERRIDES ==
  ("Men's Clothing" :> ("Shirt / Blouse" :> 96 @@ "Top / T-shirt" :> 96 @@ "T-shirt" :> 96 @@ "Trousers / Shorts" :> 91 @@ "Sweatshirt / Hoodie" :> 94 @@ "Knitted Jumper" :> 95 @@ "Jacket" :> 93 @@ "Suit" :> 92)) @@
  ("Women's Clothing" :> ("T-shirt" :> 90)) @@
  ("Children's Clothing" :> ("Shirt / Blouse" :> 194 @@ "Top / T-shirt" :> 194 @@ "T-shirt" :> 194 @@ "Trousers / Shorts" :> 104 @@ "Sweatshirt / Hoodie" :> 196 @@ "Knitted Jumper" :> 193 @@ "Jacket" :> 103 @@ "Suit" :> 195))

\* mapping_v2.PRODUCT_GROUP_MAP: lowercased product group -> canonical clothing type
PRODUCT_GROUP_MAP ==
  (<<"d", "e", "n", "i", "m">> :> "Trousers") @@
  (<<"j", "a", "c", "k", "e", "t">> :> "Jacket") @@
  (<<"o", "u", "t", "w", "e", "a", "r">> :> "Jacket") @@
  (<<"c", "o", "a", "t">> :> "Coat") @@
  (<<"d", "r", "e", "s", "s">> :> "Skirt / Dress") @@
  (<<"s", "k", "i", "r", "t">> :> "Skirt / Dress") @@
  (<<"t", "-", "s", "h", "i", "r", "t">> :> "T-shirt") @@
  (<<"s", "w", "e", "a", "t", "e", "r">> :> "Sweater") @@
  (<<"p", "a", "n", "t", "s">> :> "Trousers") @@
  (<<"b", "l", "o", "u", "s", "e">> :> "Shirt / Blouse") @@
  (<<"s", "h", "i", "r", "t">> :> "Shirt / Blouse") @@
  (<<"t", "o", "p">> :> "Top / T-shirt") @@
  (<<"b", "o", "d", "y">> :> "Underwear") @@
  (<<"o", "v", "e", "r", "a", "l", "l">> :> "Overall") @@
  (<<"v", "e", "s", "t", "s">> :> "Unlined Jacket / Vest") @@
  (<<"b", "l", "a", "z", "e", "r">> :> "Suit") @@
  (<<"c", "a", "p">> :> "Cap") @@
  (<<"g", "l", "o", "v", "e", "s">> :> "Gloves") @@
  (<<"s", "c", "a", "r", "f">> :> "Scarf / Shawl") @@
  (<<"b", "e", "l", "t">> :> "Belt") @@
  (<<"h", "a", "n", "d", "b", "a", "g", "s">> :> "Handbags") @@
  (<<"b", "a", "c", "k", "p", "a", "c", "k">> :> "Handbags") @@
  (<<"b", "a", "g">> :> "Handbags") @@
  (<<"s", "o", "c", "k", "s">> :> "Underwear") @@
  (<<"t", "i", "g", "h", "t", "s">> :> "Underwear") @@
  (<<"p", "y", "j", "a", "m", "a", "s">> :> "Underwear") @@
  (<<"n", "i", "g", "h", "t", "d", "r", "e", "s", "s">> :> "Underwear") @@
  (<<"s", "p", "o", "r", "t", "s", "w", "e", "a", "r">> :> "Sweatshirt / Hoodie") @@
  (<<"s", "w", "i", "m", "w", "e", "a", "r", " ", "-", " ", "b", "o", "t", "t", "o", "m">> :> "Swimsuit") @@
  (<<"s", "w", "i", "m", "w", "e", "a", "r", " ", "-", " ", "o", "n", "e", " ", "p", "i", "e", "c", "e">> :> "Swimsuit") @@
  (<<"s", "w", "i", "m", "w", "e", "a", "r", " ", "-", " ", "t", "o", "p">> :> "Bikini")

\* mapping_v2.PRODUCT_NAME_KEYWORDS: ordered (keyword, canonical type) pairs
PRODUCT_NAME_KEYWORDS == <<
  <<<<"s", "k", "i", "r", "t">>, "Skirt / Dress">>,
  <<<<"d", "r", "e", "s", "s">>, "Skirt / Dress">>,
  <<<<"t", "o", "p">>, "Knitted Jumper">>,
  <<<<"j", "u", "m", "p", "e", "r">>, "Knitted Jumper">>,
  <<<<"c", "a", "r", "d", "i", "g", "a", "n">>, "Knitted Jumper">>,
  <<<<"s", "w", "e", "a", "t", "e", "r">>, "Sweater">>,
  <<<<"v", "e", "s", "t">>, "Unlined Jacket / Vest">>,
  <<<<"p", "a", "n", "t", "s">>, "Trousers">>,
  <<<<"t", "r", "o", "u", "s", "e", "r">>, "Trousers">>
>>

\* mapping_v2.MATERIAL_MAP_EN: lowercased English material name -> canonical material
MATERIAL_MAP_EN ==
  (<<"c", "o", "t", "t", "o", "n">> :> "Standard textile") @@
  (<<"p", "o", "l", "y", "e", "s", "t", "e", "r">> :> "Standard textile") @@
  (<<"e", "l", "a", "s", "t", "a", "n", "e">> :> "Standard textile") @@
  (<<"p", "o", "l", "y", "a", "m", "i", "d", "e">> :> "Standard textile") @@
  (<<"n", "y", "l", "o", "n">> :> "Standard textile") @@
  (<<"a", "c", "r", "y", "l", "i", "c">> :> "Standard textile") @@
  (<<"v", "i", "s", "c", "o", "s", "e">> :> "Standard textile") @@
  (<<"m", "o", "d", "a", "l">> :> "Standard textile") @@
  (<<"l", "y", "o", "c", "e", "l", "l">> :> "Standard textile") @@
  (<<"t", "e", "n", "c", "e", "l">> :> "Standard textile") @@
  (<<"r", "a", "y", "o", "n">> :> "Standard textile") @@
  (<<"h", "e", "m", "p">> :> "Standard textile") @@
  (<<"r", "a", "m", "i", "e">> :> "Standard textile") @@
  (<<"s", "p", "a", "n", "d", "e", "x">> :> "Standard textile") @@
  (<<"p", "o", "l", "y", "p", "r", "o", "p", "y", "l", "e", "n", "e">> :> "Standard textile") @@
  (<<"l", "i", "n", "e", "n">> :> "Linen/Wool") @@
  (<<"w", "o", "o", "l">> :> "Linen/Wool") @@
  (<<"a", "l", "p", "a", "c", "a">> :> "Linen/Wool") @@
  (<<"m", "o", "h", "a", "i", "r">> :> "Linen/Wool") @@
  (<<"a", "n", "g", "o", "r", "a">> :> "Linen/Wool") @@
  (<<"c", "a", "s", "h", "m", "e", "r", "e">> :> "Cashmere") @@
  (<<"s", "i", "l", "k">> :> "Silk") @@
  (<<"l", "e", "a", "t", "h", "e", "r">> :> "Leather/Suede") @@
  (<<"s", "u", "e", "d", "e">> :> "Leather/Suede") @@
  (<<"d", "o", "w", "n">> :> "Down") @@
  (<<"f", "u", "r">> :> "Fur")

(***************************************************************************)
(* mapping.py, mapping_v2.py, vision.py: the catalog ID resolver and the   *)
(* four classification functions.  An id is <<>> (None) or <<id>>; a       *)
(* booking URL is <<>> or a record of its query parameters.                *)
(***************************************************************************)
\* dict.get(key) on a table without None values: <<>> or <<value>>
Lookup(map, key) == IF key \in DOMAIN map THEN <<map[key]>> ELSE <<>>

\* map_category: category -> subcategory; <<>> is None or the empty string
map_category(kappahl_category) ==
  IF kappahl_category = <<>> THEN "Women's Clothing"
  ELSE IF Lower(kappahl_category) \in DOMAIN CATEGORY_MAP
       THEN CATEGORY_MAP[Lower(kappahl_category)]
       ELSE "Women's Clothing"

\* _resolve_clothing_type_id: clothing_name is <<>> (None) or <<name>>
resolve_clothing_type_id(clothing_name, subcategory_name) ==
  IF clothing_name = <<>> \/ clothing_name[1] = "" THEN <<>>
  ELSE IF /\ subcategory_name \in DOMAIN CLOTHING_TYPE_OVERRIDES
          /\ clothing_name[1] \in DOMAIN CLOTHING_TYPE_OVERRIDES[subcategory_name]
       THEN <<CLOTHING_TYPE_OVERRIDES[subcategory_name][clothing_name[1]]>>
       ELSE Lookup(QFIX_CLOTHING_TYPE_IDS, clothing_name[1])

\* for mat_id, mat_name in valid.items(): if mat_name == name: return mat_id
FirstNamed(valid, name) ==
  LET hits == {i \in 1..Len(valid) : valid[i][2] = name}
  IN  IF hits = {} THEN <<>> ELSE <<valid[MinOf(hits)][1]>>

\* the two loops over a valid-material set without the second one
MaterialIdIn_NoFallback(valid, material_name) == FirstNamed(valid, material_name)

\* the two loops over a valid-material set: the id named material_name, else
\* the id named "Other/Unsure", else None
MaterialIdIn(valid, material_name) ==
  IF FirstNamed(valid, material_name) # <<>> THEN FirstNamed(valid, material_name)
  ELSE FirstNamed(valid, "Other/Unsure")

\* _resolve_material_id without the fall-back to "Other/Unsure"
resolve_material_id_NoFallback(clothing_type_id, material_name) ==
  IF clothing_type_id = <<>> \/ clothing_type_id[1] = 0 \/ material_name = "" THEN <<>>
  ELSE FirstNamed(IF clothing_type_id[1] \in DOMAIN VALID_MATERIAL_IDS
                  THEN VALID_MATERIAL_IDS[clothing_type_id[1]] ELSE <<>>,
                  material_name)

\* _resolve_material_id; material_name "" stands for an empty or missing name
resolve_material_id(clothing_type_id, material_name) ==
  IF clothing_type_id = <<>> \/ clothing_type_id[1] = 0 \/ material_name = "" THEN <<>>
  ELSE MaterialIdIn(IF clothing_type_id[1] \in DOMAIN VALID_MATERIAL_IDS
                    THEN VALID_MATERIAL_IDS[clothing_type_id[1]] ELSE <<>>,
                    material_name)

\* the f-string of the booking URL: its two query parameters
BookingUrl(clothing_type_id, material_id) ==
  <<[category_id |-> clothing_type_id[1], material_id |-> material_id]>>

\* a booking URL as soon as the clothing type id is resolved
UrlIfBoth_TypeIdOnly(clothing_type_id, material_id) ==
  IF clothing_type_id # <<>> /\ clothing_type_id[1] # 0
  THEN BookingUrl(clothing_type_id, material_id)
  ELSE <<>>

\* if clothing_type_id and material_id: qfix_url = ...
UrlIfBoth(clothing_type_id, material_id) ==
  IF clothing_type_id # <<>> /\ clothing_type_id[1] # 0 /\ material_id # <<>> /\ material_id[1] # 0
  THEN BookingUrl(clothing_type_id, material_id)
  ELSE <<>>

\* map_product: the current catalog
map_product(rules, product, brand) ==
  LET clothing_name    == map_clothing_type(rules, product.clothing_type, brand,
                                            product.product_name, product.description)
      material_name    == map_material(rules, product.material_composition, brand)
      subcategory_name == map_category(product.category)
      clothing_type_id == resolve_clothing_type_id(clothing_name, subcategory_name)
      material_id      == resolve_material_id(clothing_type_id, material_name)
  IN  [qfix_clothing_type |-> clothing_name,
       qfix_clothing_type_id |-> clothing_type_id,
       qfix_material |-> material_name,
       qfix_material_id |-> material_id,
       qfix_subcategory |-> subcategory_name,
       qfix_subcategory_id |-> Lookup(QFIX_SUBCATEGORY_IDS, subcategory_name),
       qfix_url |-> UrlIfBoth(clothing_type_id, material_id)]

\* map_product_legacy: the legacy catalog
map_product_legacy(rules, product, brand) ==
  LET clothing_name    == map_clothing_type(rules, product.clothing_type, brand,
                                            product.product_name, product.description)
      material_name    == map_material(rules, product.material_composition, brand)
      subcategory_name == map_category(product.category)
      clothing_type_id == IF clothing_name = <<>> \/ clothing_name[1] = "" THEN <<>>
                          ELSE Lookup(QFIX_CLOTHING_TYPE_IDS_LEGACY, clothing_name[1])
      material_id      == IF clothing_type_id = <<>> \/ material_name = "" THEN <<>>
                          ELSE MaterialIdIn(IF clothing_type_id[1] \in DOMAIN VALID_MATERIAL_IDS_LEGACY
                                            THEN VALID_MATERIAL_IDS_LEGACY[clothing_type_id[1]]
                                            ELSE <<>>,
                                            material_name)
  IN  [qfix_clothing_type |-> clothing_name,
       qfix_clothing_type_id |-> clothing_type_id,
       qfix_material |-> material_name,
       qfix_material_id |-> material_id,
       qfix_subcategory |-> subcategory_name,
       qfix_subcategory_id |-> Lookup(QFIX_SUBCATEGORY_IDS_LEGACY, subcategory_name),
       qfix_url |-> UrlIfBoth(clothing_type_id, material_id)]

\* mapping_v2._strip_certification
strip_certification(material_name) ==
  IF Contains(material_name, <<",">>) THEN Strip(Split(material_name, ",")[1])
  ELSE Strip(material_name)

\* mapping_v2.map_clothing_type_v2; <<>> is None or the empty string
map_clothing_type_v2(category, product_name) ==
  IF category = <<>> THEN <<>>
  ELSE LET cat_lower == Lower(Strip(category))
       IN  IF cat_lower \in DOMAIN PRODUCT_GROUP_MAP THEN <<PRODUCT_GROUP_MAP[cat_lower]>>
           ELSE IF cat_lower = <<"k", "n", "i", "t", "w", "e", "a", "r">> /\ product_name # <<>>
                THEN IF FirstKeywordMatch(PRODUCT_NAME_KEYWORDS, Lower(product_name)) # <<>>
                     THEN FirstKeywordMatch(PRODUCT_NAME_KEYWORDS, Lower(product_name))
                     ELSE <<"Knitted Jumper">>
                ELSE <<>>

RECURSIVE SortByPercentageDesc(_)
\* sorted(materials, key=lambda m: m.get("percentage", 0), reverse=True): a
\* stable sort, equal percentages keep their order
SortByPercentageDesc(materials) ==
  IF materials = <<>> THEN <<>>
  ELSE LET top == MaxOf({materials[i].percentage : i \in 1..Len(materials)})
           at  == MinOf({i \in 1..Len(materials) : materials[i].percentage = top})
       IN  <<materials[at]>> \o
           SortByPercentageDesc(SubSeq(materials, 1, at - 1) \o
                                SubSeq(materials, at + 1, Len(materials)))

\* mapping_v2.map_material_v2
map_material_v2(materials) ==
  LET sorted_mats == SortByPercentageDesc(materials)
      hits == {i \in 1..Len(sorted_mats) :
                 Lower(strip_certification(sorted_mats[i].name)) \in DOMAIN MATERIAL_MAP_EN}
  IN  IF hits = {} THEN "Other/Unsure"
      ELSE MATERIAL_MAP_EN[Lower(strip_certification(sorted_mats[MinOf(hits)].name))]

\* mapping_v2.map_product_v2, with the materials already a list
map_product_v2(product, materials) ==
  LET clothing_name    == map_clothing_type_v2(product.category, product.product_name)
      material_name    == map_material_v2(materials)
      clothing_type_id == IF clothing_name = <<>> THEN <<>>
                          ELSE Lookup(QFIX_CLOTHING_TYPE_IDS, clothing_name[1])
      material_id      == resolve_material_id(clothing_type_id, material_name)
  IN  [qfix_clothing_type |-> clothing_name,
       qfix_clothing_type_id |-> clothing_type_id,
       qfix_material |-> material_name,
       qfix_material_id |-> material_id,
       qfix_url |-> UrlIfBoth(clothing_type_id, material_id)]

\* classification.get(key, default)
GetOr(classification, key, default) ==
  IF key \in DOMAIN classification THEN classification[key] ELSE default

\* vision.classify_and_map, from the answer of identify_product on; an
\* empty string stands for a JSON null as well (both are false, and both
\* miss every table)
classify_and_map(classification) ==
  LET clothing_name    == GetOr(classification, "clothing_type", "Other")
      material_name    == GetOr(classification, "material", "Other/Unsure")
      subcategory_name == GetOr(classification, "category", "Women's Clothing")
      clothing_type_id == Lookup(QFIX_CLOTHING_TYPE_IDS, clothing_name)
      material_id      == resolve_material_id(clothing_type_id, material_name)
  IN  [qfix_clothing_type |-> <<clothing_name>>,
       qfix_clothing_type_id |-> clothing_type_id,
       qfix_material |-> material_name,
       qfix_material_id |-> material_id,
       qfix_subcategory |-> subcategory_name,
       qfix_subcategory_id |-> Lookup(QFIX_SUBCATEGORY_IDS, subcategory_name),
       qfix_url |-> IF clothing_type_id # <<>> /\ material_id # <<>>
                    THEN BookingUrl(clothing_type_id, material_id)
                    ELSE IF clothing_type_id # <<>>
                         THEN BookingUrl(clothing_type_id, <<>>)
                         ELSE <<>>]

(***************************************************************************)
(* Inputs of the merge: catalogs, AI rankings, product texts               *)
(***************************************************************************)
Svc(id, name, price) == [id |-> id, name |-> name, price |-> price]

Act(id, name, price) == [id |-> id, name |-> name, price |-> price]

\* a catalog entry with repair, adjustment and washing service categories
CatalogA ==
  <<
     [slug |-> <<"r", "e", "p", "a", "i", "r">>,
      services |-> <<Svc(11, "Replace zipper", <<349>>),
                     Svc(12, "Replace main zipper", <<499>>),
                     Svc(13, "Replace zipper slider", <<149>>),
                     Svc(14, "Replace button", <<99>>),
                     Svc(15, "Replace snap button", <<129>>),
                     Svc(16, "Replace jeans button", <<129>>),
                     Svc(17, "Repair seam", <<199>>),
                     Svc(18, "Repair tear", <<249>>),
                     Svc(19, "Replace lining", <<799>>),
                     Svc(20, "Replace elastic", <<199>>),
                     Svc(21, "Patch hole", <<149>>)>>],
     [slug |-> <<"a", "d", "j", "u", "s", "t", "m", "e", "n", "t">>,
      services |-> <<Svc(31, "Shorten sleeves", <<299>>),
                     Svc(32, "Lengthen sleeves", <<349>>),
                     Svc(33, "Tapering legs", <<399>>),
                     Svc(34, "Shorten length", <<299>>),
                     Svc(35, "Take in waist", <<349>>),
                     Svc(36, "Take in sides", <<349>>),
                     Svc(37, "Expand waist", <<399>>),
                     Svc(38, "Shorten legs", <<249>>),
                     Svc(39, "Narrow shoulder area", <<599>>),
                     Svc(40, "Take in the back", <<449>>),
                     Svc(41, "Lengthen legs", <<299>>)>>],
     [slug |-> <<"w", "a", "s", "h", "i", "n", "g">>,
      services |-> <<Svc(51, "Dry cleaning", <<299>>),
                     Svc(52, "Clean and condition", <<>>),
                     Svc(53, "Waterproofing", <<199>>),
                     Svc(54, "Hand wash", <<149>>),
                     Svc(55, "Stain removal", <<99>>),
                     Svc(56, "Ironing", <<79>>),
                     Svc(57, "Steaming", <<89>>),
                     Svc(58, "Odour removal", <<129>>)>>]
  >>

\* a catalog entry whose zipper services live outside the repair category,
\* with unpriced variants and a service category of unknown slug
CatalogB ==
  <<
     [slug |-> <<"s", "v", "-", "r", "e", "p", "a", "i", "r">>,
      services |-> <<Svc(14, "Replace button", <<99>>),
                     Svc(15, "Replace snap button", <<129>>),
                     Svc(16, "Replace jeans button", <<129>>),
                     Svc(17, "Repair seam", <<199>>),
                     Svc(18, "Repair tear", <<249>>),
                     Svc(19, "Replace lining", <<799>>),
                     Svc(20, "Replace elastic", <<199>>),
                     Svc(21, "Patch hole", <<149>>)>>],
     [slug |-> <<"a", "d", "j", "u", "s", "t", "m", "e", "n", "t", "-", "2">>,
      services |-> <<Svc(31, "Shorten sleeves", <<299>>),
                     Svc(32, "Lengthen sleeves", <<349>>),
                     Svc(33, "Tapering legs", <<399>>),
                     Svc(34, "Shorten length", <<299>>),
                     Svc(35, "Take in waist", <<349>>),
                     Svc(36, "Take in sides", <<349>>),
                     Svc(71, "Replace zipper", <<>>),
                     Svc(72, "Replace zipper", <<0>>)>>],
     [slug |-> <<"c", "u", "s", "t", "o", "m", "i", "z", "e">>,
      services |-> <<Svc(81, "Replace zipper", <<450>>),
                     Svc(82, "Replace zipper", <<250>>),
                     Svc(83, "Clean and condition", <<150>>)>>],
     [slug |-> <<"m", "i", "s", "c">>,
      services |-> <<Svc(91, "Replace main zipper", <<10>>)>>],
     [slug |-> <<"w", "a", "s", "h", "i", "n", "g">>,
      services |-> <<Svc(51, "Dry cleaning", <<299>>),
                     Svc(52, "Clean and condition", <<>>),
                     Svc(59, "Clean and condition", <<180>>),
                     Svc(53, "Waterproofing", <<199>>),
                     Svc(54, "Hand wash", <<149>>),
                     Svc(55, "Stain removal", <<99>>),
                     Svc(56, "Ironing", <<79>>),
                     Svc(57, "Steaming", <<89>>),
                     Svc(58, "Odour removal", <<129>>)>>]
  >>

Catalogs == {CatalogA, CatalogB}

\* rankings as the ranking job stores them: no id and no name twice
RepairRanking1 ==
  <<Act(17, "Repair seam", <<199>>),
    Act(11, "Replace zipper", <<349>>),
    Act(18, "Repair tear", <<249>>),
    Act(14, "Replace button", <<99>>),
    Act(19, "Replace lining", <<799>>),
    Act(20, "Replace elastic", <<199>>),
    Act(12, "Replace main zipper", <<499>>),
    Act(15, "Replace snap button", <<129>>),
    Act(13, "Replace zipper slider", <<149>>),
    Act(16, "Replace jeans button", <<129>>)>>

\* a ranking stored before the catalog renamed action 11
RepairRanking2 ==
  <<Act(18, "Repair tear", <<249>>),
    Act(11, "Change zipper", <<349>>),
    Act(17, "Repair seam", <<199>>),
    Act(20, "Replace elastic", <<199>>),
    Act(19, "Replace lining", <<799>>),
    Act(15, "Replace snap button", <<129>>),
    Act(16, "Replace jeans button", <<129>>),
    Act(14, "Replace button", <<99>>),
    Act(21, "Patch hole", <<149>>),
    Act(12, "Replace main zipper", <<499>>)>>

AdjustmentRanking1 ==
  <<Act(36, "Take in sides", <<349>>),
    Act(37, "Expand waist", <<399>>),
    Act(33, "Tapering legs", <<399>>),
    Act(31, "Shorten sleeves", <<299>>),
    Act(38, "Shorten legs", <<249>>),
    Act(35, "Take in waist", <<349>>),
    Act(32, "Lengthen sleeves", <<349>>),
    Act(34, "Shorten length", <<299>>),
    Act(39, "Narrow shoulder area", <<599>>),
    Act(40, "Take in the back", <<449>>)>>

AdjustmentRanking2 ==
  <<Act(31, "Shorten sleeves", <<299>>),
    Act(34, "Shorten length", <<299>>),
    Act(35, "Take in waist", <<349>>),
    Act(32, "Lengthen sleeves", <<349>>),
    Act(33, "Tapering legs", <<399>>),
    Act(36, "Take in sides", <<349>>),
    Act(39, "Narrow shoulder area", <<599>>),
    Act(38, "Shorten legs", <<249>>),
    Act(37, "Expand waist", <<399>>),
    Act(41, "Lengthen legs", <<299>>)>>

CareRanking1 ==
  <<Act(54, "Hand wash", <<149>>),
    Act(51, "Dry cleaning", <<299>>),
    Act(55, "Stain removal", <<99>>),
    Act(56, "Ironing", <<79>>),
    Act(53, "Waterproofing", <<199>>),
    Act(57, "Steaming", <<89>>),
    Act(58, "Odour removal", <<129>>),
    Act(52, "Clean and condition", <<>>)>>

\* the ranking job stores top_actions[:10] per category
MaxPool == 10

Pools(rankings) == {Prefix(r, n) : r \in rankings, n \in 0..MaxPool}

\* the stored rankings: repair and adjustment always present, care optional
Rankings ==
  {[cat \in D |-> w[cat]] :
     D \in {{"repair", "adjustment"}, {"repair", "adjustment", "care"}},
     w \in [repair : Pools({RepairRanking1, RepairRanking2}),
            adjustment : Pools({AdjustmentRanking1, AdjustmentRanking2}),
            care : Pools({CareRanking1})]}

ProductTexts ==
  {<<>>,
   <<"p", "l", "a", "i", "n", " ", "s", "h", "i", "r", "t">>,
   <<"l", "e", "g", "g", "i", "n", "g", "s">>,
   <<"l", "e", "g", "g", "i", "n", "g", "s", " ", "z", "i", "p">>,
   <<"b", "i", "k", "i", "n", "i">>,
   <<"b", "i", "k", "i", "n", "i", " ", "z", "i", "p", "p", "e", "r">>,
   <<"z", "i", "p", " ", "j", "a", "c", "k", "e", "t">>,
   <<"k", "n", "a", "p", "p", " ", "j", "e", "a", "n", "s", " ", "s", "n", "a", "p">>,
   <<"l", "e", "a", "t", "h", "e", "r">>,
   <<"b", "a", "d", "s", "h", "o", "r", "t", "s">>,
   <<"s", "k", "i", "r", "t", " ", "b", "u", "t", "t", "o", "n">>,
   <<"j", "a", "c", "k", "e", "t", " ", "s", "l", "i", "d", "e", "r", " ", "z", "i", "p">>}

(***************************************************************************)
(* Inputs of the resolvers and of the admin requests                       *)
(***************************************************************************)
\* longest material text, in tokens
MaxTokens == 4

\* longest suggestions array of one /remap/apply request
MaxSuggestions == 2

\* most keyword rules added at run time to one keyword list
MaxKeywordRules == 1

MaterialTokens == {Pct(40), Pct(60), Word("Bomull"), Word("Metall"), Word("Foo"), Comma}

\* "" (no text), "60% Metall 40% Bomull", "Foo 40%, Bomull 60%", "Foo", ...
MaterialTexts == UNION {[1..n -> MaterialTokens] : n \in 0..MaxTokens}

\* brand None, a brand that receives overrides, a brand that never does
CallBrands == {"", "eton", "lindex"}

\* brand of an admin request: none, a known brand, an unknown brand
AdminBrands == {"", "eton", "acme"}

Suggestion(from, to, rule_type, match_type) ==
  [from |-> from, to |-> to, rule_type |-> rule_type, match_type |-> match_type]

\* material rules asked for: two valid ones, an unknown target, a missing
\* target, a missing source, an unknown rule type
MaterialSuggestions ==
  { Suggestion(<<Word("Foo")>>, " Silk ", "material", ""),
    Suggestion(<<Word("Metall")>>, " Down ", "material", "exact"),
    Suggestion(<<Word("Bomull")>>, "Plastic", "material", "exact"),
    Suggestion(<<Word("Metall")>>, "", "material", ""),
    Suggestion(<<>>, "Silk", "material", ""),
    Suggestion(<<"f", "o", "o">>, "Fur", "fabric", "") }

\* clothing-type rules asked for: exact rules for a first segment and for a
\* full path, a keyword rule, an unknown target, a missing target
ClothingSuggestions ==
  { Suggestion(<<" ", "S", "k", "j", "o", "r", "t", "o", "r">>, " Cap ", "", ""),
    Suggestion(<<"s", "k", "j", "o", "r", "t", "o", "r", " ", ">", " ", "c", "a", "s", "u", "a", "l">>, "Belt", "clothing_type", "exact"),
    Suggestion(<<"S", "l", "i", "p", "s">>, "Scarf / Shawl", "clothing_type", "keyword"),
    Suggestion(<<"a", "c", "c", "e", "s", "s", "o", "a", "r", "e", "r">>, "Tie", "clothing_type", "exact"),
    Suggestion(<<"s", "k", "j", "o", "r", "t", "o", "r">>, "", "clothing_type", "keyword") }

\* the suggestions arrays of one request
SuggestionLists(S) == UNION {[1..n -> S] : n \in 1..MaxSuggestions}

\* category paths as scraped
ClothingPaths ==
  { <<>>,
    <<"A", "c", "c", "e", "s", "s", "o", "a", "r", "e", "r">>,
    <<"A", "c", "c", "e", "s", "s", "o", "a", "r", "e", "r", " ", ">", " ", "S", "l", "i", "p", "s", "a", "r">>,
    <<"a", "c", "c", "e", "s", "s", "o", "a", "r", "e", "r", " ", ">", " ", "k", "e", "p", "s", "a", "r", " ", ">", " ", "s", "o", "l", "h", "a", "t", "t", "a", "r">>,
    <<"D", "a", "m", " ", ">", " ", "S", "k", "j", "o", "r", "t", "o", "r">>,
    <<"S", "k", "j", "o", "r", "t", "o", "r", " ", ">", " ", "C", "a", "s", "u", "a", "l">>,
    <<"s", "k", "j", "o", "r", "t", "o", "r">>,
    <<"D", "a", "m", " ", ">", " ", "H", "e", "r", "r">>,
    <<"B", "a", "d", "k", "l", "a", "d", "e", "r", " ", ">", " ", "B", "i", "k", "i", "n", "i", "t", "o", "p", "p", "a", "r">>,
    <<"s", "k", "o", "r", " ", ">", " ", "b", "o", "o", "t", "s">>,
    <<"l", "o", "u", "n", "g", "e", "w", "e", "a", "r">>,
    <<"Y", "t", "t", "e", "r", "k", "l", "ä", "d", "e", "r", " ", ">", " ", "R", "e", "g", "n", "a", "c", "c", "e", "s", "s", "o", "a", "r", "e", "r">>,
    <<"R", "o", "y", " ", "S", "u", "n", "b", "u", "r", "n", "s", " ", "T", "-", "S", "h", "i", "r", "t">>,
    <<"O", "k", "a", "n", "d", " ", "k", "a", "t", "e", "g", "o", "r", "i">>,
    <<"S", "l", "i", "p", "s", "a", "r", " ", ">", " ", "S", "i", "d", "e", "n">>,
    <<"b", "a", "d", "k", "l", "a", "d", "e", "r">> }

ProductNames == {<<>>, <<"B", "i", "k", "i", "n", "i", " ", "T", "o", "p">>, <<"S", "i", "d", "e", "n", "s", "l", "i", "p", "s">>}

Descriptions == {<<>>, <<"R", "a", "n", "d", "i", "g", " ", "s", "c", "a", "r", "f">>}

(***************************************************************************)
(* api.py: the loop of remap_apply one store at a time                     *)
(*                                                                         *)
(* A brand rule is written by BRAND_X.setdefault(brand, {})[key] = value:  *)
(* the call of setdefault and the store into the brand's table are two     *)
(* operations, and another thread may run between them.  A global rule is  *)
(* written by one store or one append.                                     *)
(***************************************************************************)
\* the brand table a suggestion is written to
BrandTableOf(s) ==
  IF s.rule_type = "material" THEN "BRAND_MATERIAL_OVERRIDES"
  ELSE IF s.match_type = "keyword" THEN "BRAND_KEYWORD_CLOTHING_OVERRIDES"
  ELSE "BRAND_CLOTHING_TYPE_OVERRIDES"

\* BRAND_X.setdefault(brand, {}) / setdefault(brand, [])
SetDefault(brand_maps, brand) == (brand :> Get(brand_maps, brand)) @@ brand_maps

\* the variant of WriteStep that writes a brand rule field by field: the key
\* with an empty target first, the target afterwards
WriteStep_KeyBeforeTarget(rules, brand, s, phase) ==
  IF phase = "store" THEN ApplySuggestion(rules, brand, s)
  ELSE IF ~SuggestionOutcome(brand, s).applied THEN rules
  ELSE IF brand = "" THEN ApplySuggestion(rules, brand, s)
  ELSE IF BrandTableOf(s) = "BRAND_KEYWORD_CLOTHING_OVERRIDES"
    THEN [rules EXCEPT ![BrandTableOf(s)] = SetDefault(@, brand)]
  ELSE [rules EXCEPT ![BrandTableOf(s)] =
                       PutBrand(@, brand, NormFrom(s.rule_type, s.from), <<>>)]

\* one operation of the loop on the tables: at "check" the validation and,
\* for an accepted rule, the store into a global table or the setdefault of
\* the brand's table; at "store" the store into the brand's table
WriteStep(rules, brand, s, phase) ==
  IF phase = "store" THEN ApplySuggestion(rules, brand, s)
  ELSE IF ~SuggestionOutcome(brand, s).applied THEN rules
  ELSE IF brand = "" THEN ApplySuggestion(rules, brand, s)
  ELSE [rules EXCEPT ![BrandTableOf(s)] = SetDefault(@, brand)]

\* whether the store of the suggestion is still to come after this operation
StoreFollows(brand, s, phase) ==
  phase = "check" /\ brand # "" /\ SuggestionOutcome(brand, s).applied

\* a brand table as a reader finds it: .get(brand, {}) makes a brand without
\* rules and a brand without a table the same
WithoutEmpty(brand_maps) ==
  [b \in {x \in DOMAIN brand_maps : brand_maps[x] # <<>>} |-> brand_maps[b]]

\* the rule tables as a reader finds them
Visible(rules) ==
  [rules EXCEPT !.BRAND_MATERIAL_OVERRIDES = WithoutEmpty(@),
                !.BRAND_CLOTHING_TYPE_OVERRIDES = WithoutEmpty(@),
                !.BRAND_KEYWORD_CLOTHING_OVERRIDES = WithoutEmpty(@)]

(***************************************************************************)
(* mapping.py: the reads of map_clothing_type one at a time                *)
(***************************************************************************)
\* one read of the rule tables: the table, the brand ("" for a global table)
\* and the key ("" for a keyword list, which is read as a whole)
Read(table, brand, key) == [table |-> table, brand |-> brand, key |-> key]

\* what a read finds: <<>> for no entry, <<target>> for an entry of an exact
\* table, the list for a keyword list
SeenIn(rules, read) ==
  LET t == IF read.brand = "" THEN rules[read.table] ELSE Get(rules[read.table], read.brand)
  IN  IF read.table \in {"KEYWORD_CLOTHING_MAP", "BRAND_KEYWORD_CLOTHING_OVERRIDES"} THEN t
      ELSE IF read.key \in DOMAIN t THEN <<t[read.key]>> ELSE <<>>

\* the read that map_clothing_type performs at a position; <<>> where the
\* position reads no shared table (brand_map is a fresh dict when the brand
\* had no table at .get(brand, {}))
ReadAt(r) ==
  LET full_key == Join(r.parts, <<" ", ">", " ">>)
      first    == r.parts[1]
  IN  CASE r.pc \in {"full_in", "full_get"} ->
             IF r.live THEN <<Read("BRAND_CLOTHING_TYPE_OVERRIDES", r.brand, full_key)>> ELSE <<>>
        [] r.pc \in {"first_in", "first_get"} ->
             IF r.live THEN <<Read("BRAND_CLOTHING_TYPE_OVERRIDES", r.brand, first)>> ELSE <<>>
        [] r.pc \in {"global_get", "global_in"} -> <<Read("CLOTHING_TYPE_MAP", "", first)>>
        [] r.pc = "brand_keywords" -> <<Read("BRAND_KEYWORD_CLOTHING_OVERRIDES", r.brand, "")>>
        [] r.pc = "keyword_loop" -> <<Read("KEYWORD_CLOTHING_MAP", "", "")>>
        [] OTHER -> <<>>

\* the position after the brand exact override: the brand sub-mappings read
\* no rule table and either return or fall to the global chain
AfterBrandOverride(r) ==
  LET sub == BrandSubMapping(r.brand, r.parts[1], r.parts, <<>>)
  IN  IF sub.returned THEN [r EXCEPT !.pc = "done", !.result = sub.value]
      ELSE [r EXCEPT !.pc = "global_get"]

\* one step of map_clothing_type(path, brand), product_name and description
\* None, on the tables as they are at this instant
ReadStep(rules, r) ==
  LET seen == IF ReadAt(r) = <<>> THEN <<>> ELSE SeenIn(rules, ReadAt(r)[1])
      full == Lower(r.path)
      r1   == [r EXCEPT !.last = IF ReadAt(r) = <<>> THEN <<>>
                                 ELSE <<[read |-> ReadAt(r)[1], value |-> seen]>>]
  IN  CASE r.pc = "brand_map" ->
             [r1 EXCEPT !.live = r.brand \in DOMAIN rules.BRAND_CLOTHING_TYPE_OVERRIDES,
                        !.pc = "full_in"]
        [] r.pc = "full_in" ->
             [r1 EXCEPT !.pc = IF seen # <<>> THEN "full_get" ELSE "first_in"]
        [] r.pc = "first_in" ->
             IF seen # <<>> THEN [r1 EXCEPT !.pc = "first_get"] ELSE AfterBrandOverride(r1)
        [] r.pc \in {"full_get", "first_get"} ->
             [r1 EXCEPT !.pc = "done", !.result = seen[1]]
        [] r.pc = "global_get" ->
             IF seen # <<>> /\ seen[1] # <<>> THEN [r1 EXCEPT !.pc = "done", !.result = seen[1]]
             ELSE [r1 EXCEPT !.pc = IF r.brand # "" THEN "brand_keywords" ELSE "global_in"]
        [] r.pc = "brand_keywords" ->
             IF FirstKeywordMatch(seen, full) # <<>>
             THEN [r1 EXCEPT !.pc = "done", !.result = FirstKeywordMatch(seen, full)]
             ELSE [r1 EXCEPT !.pc = "global_in"]
        [] r.pc = "global_in" ->
             IF seen # <<>> THEN [r1 EXCEPT !.pc = "done", !.result = <<>>]
             ELSE [r1 EXCEPT !.pc = "keyword_loop"]
        [] r.pc = "keyword_loop" ->
             [r1 EXCEPT !.pc = "done", !.result = FirstKeywordMatch(seen, full)]

\* the call at its first read
ReadBegin(path, brand) ==
  LET r == [path |-> path, brand |-> brand, parts |-> PathParts(path), pc |-> "brand_map",
            live |-> FALSE, last |-> <<>>, result |-> <<>>]
  IN  IF path = <<>> \/ r.parts = <<>> THEN [r EXCEPT !.pc = "done"]
      ELSE IF brand # "" THEN r
      ELSE AfterBrandOverride(r)

RECURSIVE ReadToEnd(_, _)
\* the call run to its end on tables that do not change
ReadToEnd(rules, r) == IF r.pc = "done" THEN r.result ELSE ReadToEnd(rules, ReadStep(rules, r))

(***************************************************************************)
(* api.py: the QFix catalog cache                                          *)
(*                                                                         *)
(* The upstream answer is the tree L1 > L2 > L3 (clothing type) > L4       *)
(* (material) > L5 (service category) > products > variants.  _qfix_items, *)
(* _qfix_subitems and _qfix_services are the dicts that the loader fills;  *)
(* None is <<>>.                                                           *)
(***************************************************************************)
\* a node of the upstream tree
Node(id, name, category_description, children) ==
  [id |-> id, name |-> name, slug |-> name, link |-> <<"link", id>>,
   category_description |-> category_description, children |-> children]

\* an L5 node with its products
ServiceNode(id, name, products) ==
  [id |-> id, name |-> name, slug |-> name, products |-> products]

Product5(id, name, price, variants) ==
  [id |-> id, name |-> name, price |-> price, variants |-> variants]

\* _build_catalog_node(node): "category_description or None"
build_catalog_node(node) ==
  [id |-> node.id, name |-> node.name, slug |-> node.slug, link |-> node.link,
   description |-> IF node.category_description = "" THEN <<>>
                   ELSE <<node.category_description>>]

\* the service categories built for one L4 node
ServiceCategories(l4) ==
  [c \in 1..Len(l4.children) |->
     [id |-> l4.children[c].id, name |-> l4.children[c].name, slug |-> l4.children[c].slug,
      services |->
        [p \in 1..Len(l4.children[c].products) |->
           [id |-> l4.children[c].products[p].id,
            name |-> l4.children[c].products[p].name,
            price |-> l4.children[c].products[p].price,
            variants |-> l4.children[c].products[p].variants]]]]

\* one store of the loops of _load_qfix_catalog
Store(cache, key, value) == [cache |-> cache, key |-> key, value |-> value]

\* the stores for one L3 node under its L2 parent: the item, then for every
\* L4 node the subitem and the services of the pair
StoresOfL3(l2, l3) ==
  <<Store("items", l3.id, build_catalog_node(l3) @@ [parent |-> build_catalog_node(l2)])>>
  \o Concat([m \in 1..Len(l3.children) |->
       <<Store("subitems", l3.children[m].id, build_catalog_node(l3.children[m])),
         Store("services", <<l3.id, l3.children[m].id>>, ServiceCategories(l3.children[m]))>>])

\* the stores of the loops over the whole tree, in the order of the loops
BuildStores(tree) ==
  Concat([a \in 1..Len(tree) |->
    Concat([b \in 1..Len(tree[a].children) |->
      Concat([c \in 1..Len(tree[a].children[b].children) |->
        StoresOfL3(tree[a].children[b], tree[a].children[b].children[c])])])])

\* whether the store stands under "if key not in cache": the items and the
\* subitems do, the services do not
StoreGuarded(store) == store.cache \in {"items", "subitems"}

\* the variant of FetchFailed that drops what the caches hold
FetchFailed_Reset(caches) == [items |-> <<>>, subitems |-> <<>>, services |-> <<>>]

\* "except Exception as e: logger.warning(...); return": the caches after a
\* fetch that failed
FetchFailed(caches) == caches

\* "if _qfix_catalog_loaded: return"
MustFetch(loaded) == ~loaded

\* the three caches as one record
CacheWith(items, subitems, services) ==
  [items |-> items, subitems |-> subitems, services |-> services]

\* cache[key] = value
StoreInto(caches, store) == [caches EXCEPT ![store.cache] = Put(@, store.key, store.value)]

RECURSIVE BuildAll(_, _)
\* the loops run without another thread in between
BuildAll(caches, stores) ==
  IF stores = <<>> THEN caches
  ELSE BuildAll(IF StoreGuarded(Head(stores)) /\ Head(stores).key \in DOMAIN caches[Head(stores).cache]
                THEN caches ELSE StoreInto(caches, Head(stores)),
                Tail(stores))

\* enrich_qfix(qfix) after its call of the loader: qfix_item and
\* qfix_subitem are added when the id is in the cache, qfix_services when
\* both ids are there (the list of the pair, or [] for an unknown pair)
enrich_qfix(qfix, caches) ==
  LET ct_id  == qfix.qfix_clothing_type_id
      mat_id == qfix.qfix_material_id
      item     == IF ct_id # <<>> /\ ct_id[1] \in DOMAIN caches.items
                  THEN [qfix_item |-> caches.items[ct_id[1]]] ELSE <<>>
      subitem  == IF mat_id # <<>> /\ mat_id[1] \in DOMAIN caches.subitems
                  THEN [qfix_subitem |-> caches.subitems[mat_id[1]]] ELSE <<>>
      services == IF ct_id # <<>> /\ mat_id # <<>>
                  THEN [qfix_services |->
                          IF <<ct_id[1], mat_id[1]>> \in DOMAIN caches.services
                          THEN caches.services[<<ct_id[1], mat_id[1]>>] ELSE <<>>]
                  ELSE <<>>
  IN  services @@ subitem @@ item @@ qfix

(***************************************************************************)
(* api.py: remap_rank_actions, the job that ranks the actions of every     *)
(* (clothing_type_id, material_id) pair of the catalog.  The answer of the *)
(* ranking service for one service category is                             *)
(*   [kind |-> "json", names |-> the list json.loads returns],             *)
(*   [kind |-> "text"]  (json.loads raises JSONDecodeError) or             *)
(*   [kind |-> "raise"] (the call or the handling of its answer raises).   *)
(***************************************************************************)
\* the variant of Existing that skips nothing
Existing_SkipsNothing(stored, force_all, force_ct_ids) == {}

\* "existing": the stored pairs the run skips; "if force_ct_ids and row[0] in
\* force_ct_ids: continue"
Existing(stored, force_all, force_ct_ids) ==
  IF force_all THEN {}
  ELSE {row \in stored : ~(force_ct_ids # {} /\ row[1] \in force_ct_ids)}

\* "for slug_part, key in service_slug_to_key.items(): if slug_part in
\* svc_slug: ranking_key = key; break"; "" is None
RankingKey(svc_slug) ==
  LET hits == {i \in 1..Len(service_slug_to_key) :
                 Contains(svc_slug, service_slug_to_key[i].slug_part)}
  IN  IF hits = {} THEN "" ELSE service_slug_to_key[MinOf(hits)].key

\* '{"id": s["id"], "name": s["name"], "price": s.get("price")}'
RankedAction(s) == [id |-> s.id, name |-> s.name, price |-> s.price]

\* "for s in services: if s["name"] == name and s["id"] not in {a["id"] for a
\* in top_actions}": the first such service, 0 without one
FirstService(name, services, matched) ==
  LET hits == {i \in 1..Len(services) :
                 /\ services[i].name = name
                 /\ \A a \in 1..Len(matched) : matched[a].id # services[i].id}
  IN  IF hits = {} THEN 0 ELSE MinOf(hits)

\* "Match names back to service objects": the loop over top_names from
\* position n on
RECURSIVE MatchNames(_, _, _, _, _)
MatchNames(top_names, services, n, matched, seen_names) ==
  IF n > Len(top_names) THEN matched
  ELSE IF top_names[n] \in seen_names
       THEN MatchNames(top_names, services, n + 1, matched, seen_names)
       ELSE LET s == FirstService(top_names[n], services, matched)
            IN  IF s = 0
                THEN MatchNames(top_names, services, n + 1, matched, seen_names)
                ELSE MatchNames(top_names, services, n + 1,
                                Append(matched, RankedAction(services[s])),
                                seen_names \cup {top_names[n]})

\* "top_actions[:10]"
FirstTen(s) == SubSeq(s, 1, IF Len(s) < 10 THEN Len(s) ELSE 10)

\* what the handling of one service category yields: the key it stores under
\* ("": nothing is stored), the ranking, the log record written and the
\* increment of errors
Ranked(kind, key, ranking, logged, errors) ==
  [kind |-> kind, key |-> key, ranking |-> ranking, logged |-> logged, errors |-> errors]

\* whether the ranking service is called for the category
NeedsRanking(svc_cat) == RankingKey(svc_cat.slug) # "" /\ Len(svc_cat.services) > 5

\* the variant of RankCategory in which a failed ranking stores nothing for
\* the category
RankCategory_FailureStoresNothing(svc_cat, answer) ==
  LET key == RankingKey(svc_cat.slug)
      services == svc_cat.services
  IN  IF key = "" THEN Ranked("no_key", "", <<>>, "", 0)
      ELSE IF services = <<>> THEN Ranked("no_services", key, <<>>, "", 0)
      ELSE IF Len(services) <= 5
           THEN Ranked("few", key, [i \in 1..Len(services) |-> RankedAction(services[i])], "", 0)
      ELSE IF answer.kind = "text" THEN Ranked("non_json", "", <<>>, "info", 0)
      ELSE IF answer.kind = "raise" THEN Ranked("ai_error", "", <<>>, "warning", 1)
      ELSE IF answer.names = <<>> THEN Ranked("empty", key, <<>>, "", 0)
      ELSE Ranked("ranked", key, FirstTen(MatchNames(answer.names, services, 1, <<>>, {})), "", 0)

\* the body of "for svc_cat in svc_cats"
RankCategory(svc_cat, answer) ==
  LET key == RankingKey(svc_cat.slug)
      services == svc_cat.services
  IN  IF key = "" THEN Ranked("no_key", "", <<>>, "", 0)
      ELSE IF services = <<>> THEN Ranked("no_services", key, <<>>, "", 0)
      ELSE IF Len(services) <= 5
           THEN Ranked("few", key, [i \in 1..Len(services) |-> RankedAction(services[i])], "", 0)
      ELSE IF answer.kind = "text" THEN Ranked("non_json", key, <<>>, "info", 0)
      ELSE IF answer.kind = "raise" THEN Ranked("ai_error", key, <<>>, "warning", 1)
      ELSE IF answer.names = <<>> THEN Ranked("empty", key, <<>>, "", 0)
      ELSE Ranked("ranked", key, FirstTen(MatchNames(answer.names, services, 1, <<>>, {})), "", 0)

\* "rankings[ranking_key] = ..."
SetRanking(rankings, key, ranking) ==
  IF key = "" THEN rankings ELSE (key :> ranking) @@ rankings

\* upsert_action_ranking: INSERT ... ON CONFLICT ... DO UPDATE
upsert_action_ranking(store, clothing_type_id, material_id, rankings) ==
  (<<clothing_type_id, material_id>> :> rankings) @@ store

(***************************************************************************)
(* The rule tables and the resolver calls                                  *)
(***************************************************************************)
\* the tables as the resolvers and the admin endpoints see them
Rules ==
  [MATERIAL_MAP |-> MATERIAL_MAP,
   BRAND_MATERIAL_OVERRIDES |-> BRAND_MATERIAL_OVERRIDES,
   CLOTHING_TYPE_MAP |-> CLOTHING_TYPE_MAP,
   BRAND_CLOTHING_TYPE_OVERRIDES |-> BRAND_CLOTHING_TYPE_OVERRIDES,
   BRAND_KEYWORD_CLOTHING_OVERRIDES |-> BRAND_KEYWORD_CLOTHING_OVERRIDES,
   KEYWORD_CLOTHING_MAP |-> KEYWORD_CLOTHING_MAP]

\* the tables after an admin request
SetRules(r) ==
  /\ MATERIAL_MAP' = r.MATERIAL_MAP
  /\ BRAND_MATERIAL_OVERRIDES' = r.BRAND_MATERIAL_OVERRIDES
  /\ CLOTHING_TYPE_MAP' = r.CLOTHING_TYPE_MAP
  /\ BRAND_CLOTHING_TYPE_OVERRIDES' = r.BRAND_CLOTHING_TYPE_OVERRIDES
  /\ BRAND_KEYWORD_CLOTHING_OVERRIDES' = r.BRAND_KEYWORD_CLOTHING_OVERRIDES
  /\ KEYWORD_CLOTHING_MAP' = r.KEYWORD_CLOTHING_MAP

\* the tables as loaded at import
RulesLoaded ==
  /\ MATERIAL_MAP = MATERIAL_MAP_DEFAULT
  /\ BRAND_MATERIAL_OVERRIDES = <<>>
  /\ CLOTHING_TYPE_MAP = CLOTHING_TYPE_MAP_DEFAULT
  /\ BRAND_CLOTHING_TYPE_OVERRIDES = <<>>
  /\ BRAND_KEYWORD_CLOTHING_OVERRIDES = <<>>
  /\ KEYWORD_CLOTHING_MAP = KEYWORD_CLOTHING_MAP_DEFAULT

rule_vars ==
  <<MATERIAL_MAP, BRAND_MATERIAL_OVERRIDES, CLOTHING_TYPE_MAP, BRAND_CLOTHING_TYPE_OVERRIDES,
    BRAND_KEYWORD_CLOTHING_OVERRIDES, KEYWORD_CLOTHING_MAP>>

merge_vars == <<top_actions, product_text, qfix_services, merged, merge_pc>>

\* no merge request in flight
MergeIdle ==
  /\ top_actions = <<>>
  /\ product_text = <<>>
  /\ qfix_services = <<>>
  /\ merged = <<>>
  /\ merge_pc = "idle"

\* the handlers in progress in the threads of the server
thread_vars == <<apply_pc, reader>>

\* no remap_apply request and no concurrent call in progress
ThreadsIdle == apply_pc = <<>> /\ reader = <<>>

\* two answers of the upstream service, taken at different times: the
\* names and a price differ
UpstreamTree(l3_name, l4_name, price) ==
  LET l5 == ServiceNode(501, "Repair", <<Product5(9001, "Fix hole", price, <<>>)>>)
      l4 == Node(69, l4_name, "", <<l5>>)
      l3 == Node(173, l3_name, "Shirts and blouses", <<l4>>)
      l2 == Node(56, "Women's Clothing", "", <<l3>>)
  IN  <<Node(1, "Clothing", "", <<l2>>)>>

TreeA == UpstreamTree("Shirt", "Standard textile", 100)

TreeB == UpstreamTree("Shirt / Blouse", "Textile", 120)

Trees == {TreeA, TreeB}

\* the threads that may be in the loader at once
MaxLoaders == 2

Loaders == 1..MaxLoaders

\* classification results handed to enrich_qfix: both ids, the type id
\* only, no id
QfixResult(clothing_type, clothing_type_id, material, material_id) ==
  [qfix_clothing_type |-> clothing_type, qfix_clothing_type_id |-> clothing_type_id,
   qfix_material |-> material, qfix_material_id |-> material_id]

QfixResults ==
  { QfixResult(<<"Shirt / Blouse">>, <<173>>, "Standard textile", <<69>>),
    QfixResult(<<"Shirt / Blouse">>, <<173>>, "Fur", <<>>),
    QfixResult(<<>>, <<>>, "Other/Unsure", <<>>) }

\* a thread outside enrich_qfix
LoaderIdle ==
  [pc |-> "idle", saw_loaded |-> FALSE, failed |-> FALSE, stores |-> <<>>, k |-> 0,
   qfix |-> <<>>, result |-> <<>>]

Caches == CacheWith(qfix_items, qfix_subitems, qfix_services_cache)

SetCaches(c) ==
  /\ qfix_items' = c.items
  /\ qfix_subitems' = c.subitems
  /\ qfix_services_cache' = c.services

cache_vars == <<qfix_items, qfix_subitems, qfix_services_cache>>

catalog_vars == <<cache_vars, qfix_catalog_loaded, loader>>

\* the module-level state at import, no call in progress
CatalogIdle ==
  /\ qfix_items = <<>>
  /\ qfix_subitems = <<>>
  /\ qfix_services_cache = <<>>
  /\ qfix_catalog_loaded = FALSE
  /\ loader = [t \in Loaders |-> LoaderIdle]

\* "if batch_count >= 100"
BatchSize == 100

\* the most rows the SELECT returns
MaxRows == 205

\* the row counts tried: around the multiples of the batch size
RowCounts == {n \in 0..MaxRows : n % BatchSize \in {0, 1, BatchSize - 1} \/ n = MaxRows}

\* the variant of CommitDue that leaves every row to the commit after the loop
CommitDue_AfterLoopOnly(batch_count) == FALSE

\* "if batch_count >= 100: write_conn.commit()"
CommitDue(batch_count) == batch_count >= BatchSize

remap_vars == <<db, txn, remap_job>>

\* no job running
JobIdle == [pc |-> "idle", total |-> 0, i |-> 0, batch_count |-> 0, updated |-> 0,
            failed_in |-> "", before |-> {}, response |-> <<>>]

\* 'return jsonify({"total": total, ..., "updated": updated})'; the counts
\* mapped and unmapped depend on the classification of the rows and add up
\* to the rows processed
Counts(job) == [total |-> job.total, processed |-> job.i, updated |-> job.updated]

\* "raise": the exception leaves the handler, the answer is the error page of
\* the framework and carries no count
Raised == [error |-> "Internal Server Error"]

RemapIdle == db = {} /\ txn = {} /\ remap_job = JobIdle

\* a service category of the catalog
ServiceCategory(slug, name, services) == [slug |-> slug, name |-> name, services |-> services]

\* more than five services, two of them under one name
ManyServices ==
  <<Svc(11, "Replace zipper", <<349>>), Svc(12, "Replace zipper", <<449>>),
    Svc(13, "Shorten sleeves", <<299>>), Svc(14, "Patch hole", <<199>>),
    Svc(15, "Replace button", <<99>>), Svc(16, "Mend seam", <<149>>)>>

FewServices == <<Svc(21, "Hand wash", <<129>>), Svc(22, "Dry clean", <<>>)>>

\* _qfix_services as the job finds it
RankServices ==
  (<<173, 69>> :> <<ServiceCategory(<<"r", "e", "p", "a", "i", "r">>, "Repair", ManyServices),
                    ServiceCategory(<<"w", "a", "s", "h", "i", "n", "g">>, "Washing", FewServices)>>) @@
  (<<173, 70>> :> <<ServiceCategory(<<"r", "e", "p", "a", "i", "r">>, "Repair", ManyServices),
                    ServiceCategory(<<"g", "i", "f", "t", "c", "a", "r", "d">>, "Gift card", FewServices)>>) @@
  (<<174, 69>> :> <<ServiceCategory(<<"a", "d", "j", "u", "s", "t", "m", "e", "n", "t">>, "Adjustment", <<>>),
                    ServiceCategory(<<"c", "u", "s", "t", "o", "m", "i", "z", "e", "-", "o", "t", "h", "e", "r">>, "Other", ManyServices)>>)

\* the order of "_qfix_services.items()": the order of insertion
RankOrder == << <<173, 69>>, <<173, 70>>, <<174, 69>> >>

\* the answers of the ranking service tried
NoAnswer == [kind |-> "none"]

RankAnswers ==
  {[kind |-> "json", names |-> <<"Replace zipper", "Patch hole", "Replace zipper", "Iron">>],
   [kind |-> "json", names |-> <<>>],
   [kind |-> "text"],
   [kind |-> "raise"]}

\* the request bodies tried
RankRequests ==
  {[force_all |-> a, force_clothing_type_ids |-> f] : a \in BOOLEAN, f \in {{}, {173}}}

NoLog == [info |-> 0, warning |-> 0, error |-> 0]

\* no ranking job running
RankIdle == [pc |-> "idle", request |-> [force_all |-> FALSE, force_clothing_type_ids |-> {}],
             stored |-> {}, existing |-> {}, todo |-> <<>>, c |-> 0, rankings |-> <<>>,
             ranked |-> 0, errors |-> 0, logged |-> NoLog, last |-> "", response |-> <<>>]

rank_vars == <<rankings_store, rank_job>>

RankingIdle == rankings_store = <<>> /\ rank_job = RankIdle

\* the state of the server besides the rule tables and the observed calls
process_vars == <<thread_vars, catalog_vars, remap_vars, rank_vars>>

ProcessIdle == ThreadsIdle /\ CatalogIdle /\ RemapIdle /\ RankingIdle

\* the keyword lists stay within the bound of the model
KeywordRulesWithinBound(r) ==
  /\ Len(r.KEYWORD_CLOTHING_MAP) <= Len(KEYWORD_CLOTHING_MAP_DEFAULT) + MaxKeywordRules
  /\ \A b \in DOMAIN r.BRAND_KEYWORD_CLOTHING_OVERRIDES :
       Len(r.BRAND_KEYWORD_CLOTHING_OVERRIDES[b]) <= MaxKeywordRules

\* no call is under observation
NoCallObserved ==
  material_call = <<>> /\ clothing_call = <<>> /\ product_call = <<>> /\ admin_call = <<>>

\* POST /unmapped/add
AddMapping(mapping_type, from, to) ==
  /\ NoCallObserved
  /\ SetRules(add_mapping(Rules, mapping_type, from, to))
  /\ admin_call' = <<[endpoint |-> "add_mapping", mapping_type |-> mapping_type,
                      from |-> from, to |-> to,
                      response |-> add_mapping_response(mapping_type, from, to)]>>
  /\ UNCHANGED <<process_vars, merge_vars, material_call, clothing_call, product_call>>

\* POST /remap/apply
RemapApply(brand, suggestions) ==
  /\ NoCallObserved
  /\ KeywordRulesWithinBound(remap_apply(Rules, brand, suggestions))
  /\ SetRules(remap_apply(Rules, brand, suggestions))
  /\ admin_call' = <<[endpoint |-> "remap_apply", brand |-> brand,
                      suggestions |-> suggestions,
                      response |-> remap_apply_response(brand, suggestions)]>>
  /\ UNCHANGED <<process_vars, merge_vars, material_call, clothing_call, product_call>>

\* a call of map_material and its answer; one resolver call is observed at a
\* time
CallMapMaterial(text, brand) ==
  /\ NoCallObserved
  /\ material_call' = <<[text |-> text, brand |-> brand,
                         result |-> map_material(Rules, text, brand)]>>
  /\ UNCHANGED <<process_vars, rule_vars, merge_vars, clothing_call, product_call, admin_call>>

\* a call of map_clothing_type and its answer
CallMapClothingType(path, brand, product_name, description) ==
  /\ NoCallObserved
  /\ clothing_call' = <<[path |-> path, brand |-> brand, product_name |-> product_name,
                         description |-> description,
                         result |-> map_clothing_type(Rules, path, brand, product_name,
                                                      description)]>>
  /\ UNCHANGED <<process_vars, rule_vars, merge_vars, material_call, product_call, admin_call>>

\* the answer has been delivered: the observation ends
CallReturns ==
  /\ ~NoCallObserved
  /\ material_call' = <<>>
  /\ clothing_call' = <<>>
  /\ product_call' = <<>>
  /\ admin_call' = <<>>
  /\ UNCHANGED <<process_vars, rule_vars, merge_vars>>

\* the requests of POST /unmapped/add, which has no match_type field
AddMappingRequests(S) == {s \in S : s.match_type # "keyword"}

MaterialInit == RulesLoaded /\ MergeIdle /\ NoCallObserved /\ ProcessIdle

MaterialNext ==
  \/ /\ NoCallObserved
     /\ \E s \in AddMappingRequests(MaterialSuggestions) :
          AddMapping(s.rule_type, s.from, s.to)
  \/ /\ NoCallObserved
     /\ \E brand \in AdminBrands, suggestions \in SuggestionLists(MaterialSuggestions) :
          RemapApply(brand, suggestions)
  \/ /\ NoCallObserved
     /\ \E text \in MaterialTexts, brand \in CallBrands : CallMapMaterial(text, brand)
  \/ CallReturns

\* the material resolver under admin mutations of the material rules
SpecMaterial == MaterialInit /\ [][MaterialNext]_vars

ClothingInit == RulesLoaded /\ MergeIdle /\ NoCallObserved /\ ProcessIdle

ClothingBrands == {"", "eton", "kappahl", "lindex", "ginatricot"}

ClothingNext ==
  \/ /\ NoCallObserved
     /\ \E s \in AddMappingRequests(ClothingSuggestions) :
          AddMapping(IF s.rule_type = "" THEN "clothing_type" ELSE s.rule_type, s.from, s.to)
  \/ /\ NoCallObserved
     /\ \E brand \in AdminBrands, suggestions \in SuggestionLists(ClothingSuggestions) :
          RemapApply(brand, suggestions)
  \/ /\ NoCallObserved
     /\ \E path \in ClothingPaths, brand \in ClothingBrands, product_name \in ProductNames,
           description \in Descriptions :
          CallMapClothingType(path, brand, product_name, description)
  \/ CallReturns

\* the clothing-type resolver under admin mutations of the clothing rules
SpecClothing == ClothingInit /\ [][ClothingNext]_vars

(***************************************************************************)
(* The merge as a state machine: one call of _inject_keyword_actions       *)
(***************************************************************************)
MergeInit ==
  /\ top_actions \in Rankings
  /\ product_text \in ProductTexts
  /\ qfix_services \in Catalogs
  /\ merged = <<>>
  /\ merge_pc = "call"
  /\ RulesLoaded
  /\ NoCallObserved
  /\ ProcessIdle

CallInjectKeywordActions ==
  /\ merge_pc = "call"
  /\ merged' = inject_keyword_actions(top_actions, product_text, qfix_services)
  /\ merge_pc' = "done"
  /\ UNCHANGED <<process_vars, top_actions, product_text, qfix_services, rule_vars, material_call,
                 clothing_call, product_call, admin_call>>

MergeNext == CallInjectKeywordActions

SpecMerge == MergeInit /\ [][MergeNext]_vars

(***************************************************************************)
(* The classification functions as a state machine: calls of map_product,  *)
(* map_product_legacy, map_product_v2 and classify_and_map, under admin    *)
(* mutations of the clothing-type table                                    *)
(***************************************************************************)
\* clothing_type fields of products: types with subcategory overrides, a
\* type outside the legacy catalog, types whose legacy id has no material
\* set, unmapped paths
ProductPaths ==
  { <<>>, <<"S", "k", "j", "o", "r", "t", "o", "r">>, <<"H", "o", "o", "d", "i", "e", "s">>, <<"s", "k", "o", "r">>, <<"S", "h", "o", "r", "t", "s">>, <<"B", "i", "k", "i", "n", "i">>, <<"O", "k", "a", "n", "d", " ", "k", "a", "t", "e", "g", "o", "r", "i">>,
    <<"m", "a", "t", "t", "o", "r">>, <<"s", "t", "o", "v", "l", "a", "r">> }

\* material_composition fields of products
ProductMaterials ==
  { <<>>,
    <<Pct(60), Word("Bomull"), Pct(40), Word("Metall")>>,
    <<Word("siden")>>,
    <<Word("suede")>>,
    <<Word("dun")>>,
    <<Word("Metall")>> }

\* category fields of products
ProductCategories == { <<>>, <<"H", "e", "r", "r">>, <<"d", "a", "m">>, <<"B", "a", "r", "n">>, <<"a", "c", "c", "e", "s", "s", "o", "a", "r", "e", "r">>, <<"u", "n", "i", "s", "e", "x">> }

Product(clothing_type, material_composition, category) ==
  [clothing_type |-> clothing_type, product_name |-> <<>>, description |-> <<>>,
   material_composition |-> material_composition, category |-> category]

Products ==
  {Product(p, m, c) : p \in ProductPaths, m \in ProductMaterials, c \in ProductCategories}

\* admin requests that map a path to a type of the current catalog whose
\* material set has no "Other/Unsure", and to one without a material set
CatalogSuggestions ==
  { Suggestion(<<"s", "t", "o", "v", "l", "a", "r">>, "Knee-high boots", "clothing_type", ""),
    Suggestion(<<"m", "a", "t", "t", "o", "r">>, "Small (less than 3sqm)", "clothing_type", "") }

\* v2 products: product group and product name
ProductsV2 ==
  { [category |-> c, product_name |-> n] :
      c \in { <<>>, <<" ", "S", "h", "i", "r", "t", " ">>, <<"K", "n", "i", "t", "w", "e", "a", "r">>, <<"S", "p", "o", "r", "t", "s", "w", "e", "a", "r">>, <<"S", "h", "o", "e", "s">> },
      n \in { <<>>, <<"A", "l", "m", "a", " ", "T", "o", "p">>, <<"W", "o", "o", "l", " ", "s", "c", "a", "r", "f">> } }

MaterialV2(name, percentage) == [name |-> name, percentage |-> percentage]

\* v2 material lists
MaterialsV2 ==
  { <<>>,
    <<MaterialV2(<<"E", "l", "a", "s", "t", "a", "n", "e">>, 5), MaterialV2(<<"C", "o", "t", "t", "o", "n", ",", " ", "B", "e", "t", "t", "e", "r", " ", "C", "o", "t", "t", "o", "n">>, 95)>>,
    <<MaterialV2(<<"M", "e", "t", "a", "l">>, 60), MaterialV2(<<"S", "i", "l", "k">>, 40)>>,
    <<MaterialV2(<<"W", "o", "o", "l", ",", " ", "R", "W", "S", " ", "C", "e", "r", "t", "i", "f", "i", "e", "d">>, 50), MaterialV2(<<"C", "a", "s", "h", "m", "e", "r", "e">>, 50)>>,
    <<MaterialV2(<<"P", "a", "p", "e", "r">>, 100)>> }

\* answers of identify_product: any JSON object, listed names or not
Classifications ==
  { f \in UNION { [D -> {"Jacket", "Shirt / Blouse", "Knee-high boots", "Other",
                         "Spacesuit", "Silk", "Other/Unsure", "Men's Clothing", ""}] :
                  D \in SUBSET {"clothing_type", "material", "category"} } :
      /\ ("clothing_type" \in DOMAIN f =>
            f["clothing_type"] \in {"Jacket", "Shirt / Blouse", "Knee-high boots", "Spacesuit", ""})
      /\ ("material" \in DOMAIN f => f["material"] \in {"Silk", "Other/Unsure", ""})
      /\ ("category" \in DOMAIN f => f["category"] \in {"Men's Clothing", ""}) }

\* a call of map_product and its answer
CallMapProduct(product, brand) ==
  /\ NoCallObserved
  /\ product_call' = <<[kind |-> "current", product |-> product, brand |-> brand,
                        result |-> map_product(Rules, product, brand)]>>
  /\ UNCHANGED <<process_vars, rule_vars, merge_vars, material_call, clothing_call, admin_call>>

\* a call of map_product_legacy and its answer
CallMapProductLegacy(product, brand) ==
  /\ NoCallObserved
  /\ product_call' = <<[kind |-> "legacy", product |-> product, brand |-> brand,
                        result |-> map_product_legacy(Rules, product, brand)]>>
  /\ UNCHANGED <<process_vars, rule_vars, merge_vars, material_call, clothing_call, admin_call>>

\* a call of map_product_v2 and its answer
CallMapProductV2(product, materials) ==
  /\ NoCallObserved
  /\ product_call' = <<[kind |-> "v2", product |-> product, materials |-> materials,
                        result |-> map_product_v2(product, materials)]>>
  /\ UNCHANGED <<process_vars, rule_vars, merge_vars, material_call, clothing_call, admin_call>>

\* a call of classify_and_map and the "qfix" part of its answer
CallClassifyAndMap(classification) ==
  /\ NoCallObserved
  /\ product_call' = <<[kind |-> "image", classification |-> classification,
                        result |-> classify_and_map(classification)]>>
  /\ UNCHANGED <<process_vars, rule_vars, merge_vars, material_call, clothing_call, admin_call>>

ClassifyInit == RulesLoaded /\ MergeIdle /\ NoCallObserved /\ ProcessIdle

ClassifyBrands == {"", "eton"}

ClassifyNext ==
  \/ /\ NoCallObserved
     /\ \E s \in CatalogSuggestions : AddMapping(s.rule_type, s.from, s.to)
  \/ /\ NoCallObserved
     /\ \E product \in Products, brand \in ClassifyBrands : CallMapProduct(product, brand)
  \/ /\ NoCallObserved
     /\ \E product \in Products, brand \in ClassifyBrands : CallMapProductLegacy(product, brand)
  \/ /\ NoCallObserved
     /\ \E product \in ProductsV2, materials \in MaterialsV2 : CallMapProductV2(product, materials)
  \/ /\ NoCallObserved
     /\ \E classification \in Classifications : CallClassifyAndMap(classification)
  \/ CallReturns

\* the classification functions under admin mutations of the clothing-type table
SpecClassify == ClassifyInit /\ [][ClassifyNext]_vars

(***************************************************************************)
(* The admin endpoints as a state machine: requests of POST /unmapped/add   *)
(* and POST /remap/apply with their answers                                *)
(***************************************************************************)
\* rules asked for: valid and invalid targets of both rule types, a keyword
\* rule, a missing target
AdminSuggestions ==
  { Suggestion(<<Word("Foo")>>, " Silk ", "material", ""),
    Suggestion(<<Word("Bomull")>>, "Plastic", "material", "exact"),
    Suggestion(<<"s", "k", "j", "o", "r", "t", "o", "r", " ", ">", " ", "c", "a", "s", "u", "a", "l">>, "Belt", "clothing_type", "exact"),
    Suggestion(<<"S", "l", "i", "p", "s">>, "Scarf / Shawl", "", "keyword"),
    Suggestion(<<"a", "c", "c", "e", "s", "s", "o", "a", "r", "e", "r">>, "Tie", "clothing_type", "exact"),
    Suggestion(<<"s", "k", "j", "o", "r", "t", "o", "r">>, "", "clothing_type", "") }

AdminInit == RulesLoaded /\ MergeIdle /\ NoCallObserved /\ ProcessIdle

AdminNext ==
  \/ /\ NoCallObserved
     /\ \E s \in AddMappingRequests(AdminSuggestions) :
          AddMapping(IF s.rule_type = "" THEN "clothing_type" ELSE s.rule_type, s.from, s.to)
  \/ /\ NoCallObserved
     /\ \E brand \in AdminBrands, suggestions \in SuggestionLists(AdminSuggestions) :
          RemapApply(brand, suggestions)
  \/ CallReturns

\* the admin endpoints on their own
SpecAdmin == AdminInit /\ [][AdminNext]_vars

(***************************************************************************)
(* remap_apply and map_clothing_type in two threads of the server          *)
(***************************************************************************)
\* rules written while a call reads: an exact rule (a new key of a brand's
\* table, the replacement of a key of the global table), a keyword rule, a
\* rejected target
ConcurrentSuggestions ==
  { Suggestion(<<"S", "k", "j", "o", "r", "t", "o", "r">>, " Cap ", "", ""),
    Suggestion(<<"S", "l", "i", "p", "s">>, "Scarf / Shawl", "", "keyword"),
    Suggestion(<<"a", "c", "c", "e", "s", "s", "o", "a", "r", "e", "r">>, "Tie", "clothing_type", "exact") }

\* the requests: lists of different suggestions
ConcurrentRequests ==
  {l \in SuggestionLists(ConcurrentSuggestions) : \A i, j \in 1..Len(l) : l[i] = l[j] => i = j}

\* the paths classified meanwhile
ConcurrentPaths == {<<"H", "e", "r", "r", " ", ">", " ", "S", "k", "j", "o", "r", "t", "o", "r", " ", ">", " ", "C", "a", "s", "u", "a", "l">>, <<"S", "i", "d", "e", "n", "s", "l", "i", "p", "s">>}

ConcurrentBrands == {"", "eton"}

\* the request has been read and its brand accepted: the loop starts
ApplyBegin(brand, suggestions) ==
  /\ apply_pc = <<>>
  /\ brand = "" \/ brand \in BRAND_ROUTES
  /\ KeywordRulesWithinBound(remap_apply(Rules, brand, suggestions))
  /\ apply_pc' = <<[brand |-> brand, suggestions |-> suggestions, i |-> 1,
                    phase |-> "check", before |-> Rules]>>
  /\ UNCHANGED <<rule_vars, merge_vars, material_call, clothing_call, product_call,
                 admin_call, reader, catalog_vars, remap_vars, rank_vars>>

\* one operation of the loop
ApplyStep ==
  /\ apply_pc # <<>>
  /\ apply_pc[1].i <= Len(apply_pc[1].suggestions)
  /\ LET w == apply_pc[1]
         s == w.suggestions[w.i]
     IN  /\ SetRules(WriteStep(Rules, w.brand, s, w.phase))
         /\ apply_pc' = <<IF StoreFollows(w.brand, s, w.phase)
                          THEN [w EXCEPT !.phase = "store"]
                          ELSE [w EXCEPT !.phase = "check", !.i = w.i + 1,
                                         !.before = WriteStep(Rules, w.brand, s, w.phase)]>>
  /\ UNCHANGED <<merge_vars, material_call, clothing_call, product_call, admin_call, reader,
                 catalog_vars, remap_vars, rank_vars>>

\* the loop is over: the handler returns the answer of remap_apply_response
ApplyEnd ==
  /\ apply_pc # <<>>
  /\ apply_pc[1].i > Len(apply_pc[1].suggestions)
  /\ apply_pc' = <<>>
  /\ UNCHANGED <<rule_vars, merge_vars, material_call, clothing_call, product_call,
                 admin_call, reader, catalog_vars, remap_vars, rank_vars>>

\* a call of map_clothing_type starts in another thread
ReaderBegin(path, brand) ==
  /\ reader = <<>>
  /\ reader' = <<ReadBegin(path, brand)>>
  /\ UNCHANGED <<rule_vars, merge_vars, material_call, clothing_call, product_call,
                 admin_call, apply_pc, catalog_vars, remap_vars, rank_vars>>

\* its next read
ReaderStep ==
  /\ reader # <<>>
  /\ reader[1].pc # "done"
  /\ reader' = <<ReadStep(Rules, reader[1])>>
  /\ UNCHANGED <<rule_vars, merge_vars, material_call, clothing_call, product_call,
                 admin_call, apply_pc, catalog_vars, remap_vars, rank_vars>>

\* it returns
ReaderReturns ==
  /\ reader # <<>>
  /\ reader[1].pc = "done"
  /\ reader' = <<>>
  /\ UNCHANGED <<rule_vars, merge_vars, material_call, clothing_call, product_call,
                 admin_call, apply_pc, catalog_vars, remap_vars, rank_vars>>

ConcurrentInit == RulesLoaded /\ MergeIdle /\ NoCallObserved /\ ProcessIdle

ConcurrentNext ==
  \/ /\ apply_pc = <<>>
     /\ \E brand \in ConcurrentBrands, suggestions \in ConcurrentRequests :
          ApplyBegin(brand, suggestions)
  \/ ApplyStep
  \/ ApplyEnd
  \/ /\ reader = <<>>
     /\ \E path \in ConcurrentPaths, brand \in ConcurrentBrands : ReaderBegin(path, brand)
  \/ ReaderStep
  \/ ReaderReturns

\* a remap_apply request and a classification call interleaved
SpecConcurrent == ConcurrentInit /\ [][ConcurrentNext]_vars

(***************************************************************************)
(* The catalog cache as a state machine: calls of _load_qfix_catalog and   *)
(* of enrich_qfix in the threads of the server, one statement at a time    *)
(***************************************************************************)
\* the loader has returned: the reads of enrich_qfix come next
AfterLoad(l) == [l EXCEPT !.pc = "enrich", !.saw_loaded = FALSE, !.stores = <<>>, !.k = 0]

\* thread t calls enrich_qfix, whose first statement is the call of
\* _load_qfix_catalog, and reads the flag; the loader does not look at the
\* argument of enrich_qfix, which is drawn at the reads
CallLoader(t) ==
  /\ loader[t].pc = "idle"
  /\ loader' = [loader EXCEPT ![t] =
                  IF MustFetch(qfix_catalog_loaded)
                  THEN [LoaderIdle EXCEPT !.pc = "fetch", !.saw_loaded = qfix_catalog_loaded]
                  ELSE [LoaderIdle EXCEPT !.pc = "enrich"]]
  /\ UNCHANGED <<cache_vars, qfix_catalog_loaded>>
  /\ UNCHANGED <<rule_vars, merge_vars, material_call, clothing_call, product_call,
                 admin_call, thread_vars, remap_vars, rank_vars>>

\* the fetch raises: timeout, HTTP error status, or a body that is no JSON
FetchFails(t) ==
  /\ loader[t].pc = "fetch"
  /\ SetCaches(FetchFailed(Caches))
  /\ loader' = [loader EXCEPT ![t] = AfterLoad([@ EXCEPT !.failed = TRUE])]
  /\ UNCHANGED qfix_catalog_loaded
  /\ UNCHANGED <<rule_vars, merge_vars, material_call, clothing_call, product_call,
                 admin_call, thread_vars, remap_vars, rank_vars>>

\* the fetch answers with a tree
FetchSucceeds(t, tree) ==
  /\ loader[t].pc = "fetch"
  /\ loader' = [loader EXCEPT ![t] = [@ EXCEPT !.pc = "build", !.stores = BuildStores(tree),
                                               !.k = 1]]
  /\ UNCHANGED <<cache_vars, qfix_catalog_loaded>>
  /\ UNCHANGED <<rule_vars, merge_vars, material_call, clothing_call, product_call,
                 admin_call, thread_vars, remap_vars, rank_vars>>

\* the next statement of the loops: the test "key not in cache" of a guarded
\* store, the store itself, or after the loops "_qfix_catalog_loaded = True"
BuildStep(t) ==
  /\ loader[t].pc \in {"build", "store"}
  /\ LET l == loader[t]
     IN  IF l.k > Len(l.stores)
         THEN /\ qfix_catalog_loaded' = TRUE
              /\ loader' = [loader EXCEPT ![t] = AfterLoad(l)]
              /\ UNCHANGED cache_vars
         ELSE IF l.pc = "build" /\ StoreGuarded(l.stores[l.k])
         THEN /\ loader' = [loader EXCEPT ![t] =
                              IF l.stores[l.k].key \in DOMAIN Caches[l.stores[l.k].cache]
                              THEN [l EXCEPT !.k = l.k + 1]
                              ELSE [l EXCEPT !.pc = "store"]]
              /\ UNCHANGED <<cache_vars, qfix_catalog_loaded>>
         ELSE /\ SetCaches(StoreInto(Caches, l.stores[l.k]))
              /\ loader' = [loader EXCEPT ![t] = [l EXCEPT !.pc = "build", !.k = l.k + 1]]
              /\ UNCHANGED qfix_catalog_loaded
  /\ UNCHANGED <<rule_vars, merge_vars, material_call, clothing_call, product_call,
                 admin_call, thread_vars, remap_vars, rank_vars>>

\* the reads of enrich_qfix(qfix)
Enrich(t, qfix) ==
  /\ loader[t].pc = "enrich"
  /\ loader' = [loader EXCEPT ![t] =
                  [@ EXCEPT !.pc = "return", !.qfix = <<qfix>>,
                            !.result = <<enrich_qfix(qfix, Caches)>>]]
  /\ UNCHANGED <<cache_vars, qfix_catalog_loaded>>
  /\ UNCHANGED <<rule_vars, merge_vars, material_call, clothing_call, product_call,
                 admin_call, thread_vars, remap_vars, rank_vars>>

\* the call returns
LoaderReturns(t) ==
  /\ loader[t].pc = "return"
  /\ loader' = [loader EXCEPT ![t] = LoaderIdle]
  /\ UNCHANGED <<cache_vars, qfix_catalog_loaded>>
  /\ UNCHANGED <<rule_vars, merge_vars, material_call, clothing_call, product_call,
                 admin_call, thread_vars, remap_vars, rank_vars>>

CatalogInit == RulesLoaded /\ MergeIdle /\ NoCallObserved /\ ProcessIdle

CatalogNext ==
  \/ \E t \in Loaders : CallLoader(t)
  \/ \E t \in Loaders : FetchFails(t)
  \/ \E t \in Loaders, tree \in Trees : FetchSucceeds(t, tree)
  \/ \E t \in Loaders : BuildStep(t)
  \/ \E t \in Loaders, qfix \in QfixResults : Enrich(t, qfix)
  \/ \E t \in Loaders : LoaderReturns(t)

\* the catalog cache under calls from the threads of the server
SpecCatalog == CatalogInit /\ [][CatalogNext]_vars

(***************************************************************************)
(* api.py: remap_run, the batch job that writes the QFix columns of every  *)
(* product, as a state machine.  The rows of the SELECT are numbered       *)
(* 1..total in the order of "ORDER BY id"; db is the set of the rows whose *)
(* UPDATE is committed, txn the set of the rows updated in the open        *)
(* transaction of write_conn.                                              *)
(***************************************************************************)
\* the rows are read, write_conn is opened with autocommit off
RemapRunBegin(total) ==
  /\ remap_job.pc = "idle"
  /\ remap_job' = [JobIdle EXCEPT !.pc = "rows", !.total = total, !.before = db]
  /\ txn' = {}
  /\ UNCHANGED db
  /\ UNCHANGED <<rule_vars, merge_vars, material_call, clothing_call, product_call,
                 admin_call, thread_vars, catalog_vars, rank_vars>>

\* one pass of the loop: the row is mapped and update_qfix_mapping runs its
\* UPDATE inside the open transaction
ProcessRow ==
  /\ remap_job.pc = "rows"
  /\ remap_job.i < remap_job.total
  /\ txn' = txn \cup {remap_job.i + 1}
  /\ remap_job' = [remap_job EXCEPT !.i = @ + 1, !.batch_count = @ + 1, !.updated = @ + 1,
                                    !.pc = IF CommitDue(remap_job.batch_count + 1)
                                           THEN "commit" ELSE "rows"]
  /\ UNCHANGED db
  /\ UNCHANGED <<rule_vars, merge_vars, material_call, clothing_call, product_call,
                 admin_call, thread_vars, catalog_vars, rank_vars>>

\* write_conn.commit(): in the loop after a full batch, after the loop for
\* the rows that remain
Commit ==
  /\ \/ remap_job.pc = "commit"
     \/ remap_job.pc = "rows" /\ remap_job.i = remap_job.total /\ remap_job.batch_count > 0
  /\ db' = db \cup txn
  /\ txn' = {}
  /\ remap_job' = [remap_job EXCEPT !.batch_count = 0, !.pc = "rows"]
  /\ UNCHANGED <<rule_vars, merge_vars, material_call, clothing_call, product_call,
                 admin_call, thread_vars, catalog_vars, rank_vars>>

\* an exception while a row is mapped or updated, or in a commit:
\* "except Exception: write_conn.rollback(); raise"
Fails ==
  /\ \/ remap_job.pc = "commit"
     \/ remap_job.pc = "rows" /\ (remap_job.i < remap_job.total \/ remap_job.batch_count > 0)
  /\ txn' = {}
  /\ remap_job' = [remap_job EXCEPT !.pc = "failed",
                     !.failed_in = IF remap_job.pc = "rows" /\ remap_job.i < remap_job.total
                                   THEN "row" ELSE "commit",
                     !.response = <<Raised>>]
  /\ UNCHANGED db
  /\ UNCHANGED <<rule_vars, merge_vars, material_call, clothing_call, product_call,
                 admin_call, thread_vars, catalog_vars, rank_vars>>

\* the loop and the last commit are over: the counts are about to be returned
Finishes ==
  /\ remap_job.pc = "rows"
  /\ remap_job.i = remap_job.total
  /\ remap_job.batch_count = 0
  /\ remap_job' = [remap_job EXCEPT !.pc = "done", !.response = <<Counts(remap_job)>>]
  /\ UNCHANGED <<db, txn>>
  /\ UNCHANGED <<rule_vars, merge_vars, material_call, clothing_call, product_call,
                 admin_call, thread_vars, catalog_vars, rank_vars>>

\* write_conn is closed and the answer (or the error) goes out
RemapRunReturns ==
  /\ remap_job.pc \in {"done", "failed"}
  /\ remap_job' = JobIdle
  /\ UNCHANGED <<db, txn>>
  /\ UNCHANGED <<rule_vars, merge_vars, material_call, clothing_call, product_call,
                 admin_call, thread_vars, catalog_vars, rank_vars>>

RemapInit == RulesLoaded /\ MergeIdle /\ NoCallObserved /\ ProcessIdle

RemapNext ==
  \/ \E total \in RowCounts : RemapRunBegin(total)
  \/ ProcessRow
  \/ Commit
  \/ Fails
  \/ Finishes
  \/ RemapRunReturns

\* runs of the batch job
SpecRemap == RemapInit /\ [][RemapNext]_vars

(***************************************************************************)
(* api.py: remap_rank_actions as a state machine.  rankings_store is the   *)
(* table qfix_action_rankings, (clothing_type_id, material_id) -> rankings;*)
(* every write of the job goes through a connection of its own in          *)
(* autocommit mode.                                                        *)
(***************************************************************************)
\* one more log record of a level
Logged(logged, level) ==
  IF level = "" THEN logged ELSE [logged EXCEPT ![level] = @ + 1]

\* the request comes in: the key and the catalog are tested, the stored
\* pairs are read
RankBegin(api_key, request) ==
  /\ rank_job.pc = "idle"
  /\ rank_job' =
       IF ~api_key
       THEN [RankIdle EXCEPT !.pc = "done",
               !.response = <<[status |-> 500, error |-> "ANTHROPIC_API_KEY not configured"]>>]
       ELSE IF DOMAIN qfix_services_cache = {}
       THEN [RankIdle EXCEPT !.pc = "done",
               !.response = <<[status |-> 500, error |-> "QFix catalog not loaded"]>>]
       ELSE [RankIdle EXCEPT !.pc = "combo", !.request = request,
               !.stored = DOMAIN rankings_store,
               !.existing = Existing(DOMAIN rankings_store, request.force_all,
                                     request.force_clothing_type_ids),
               !.todo = SelectSeq(RankOrder, LAMBDA k : k \in DOMAIN qfix_services_cache)]
  /\ UNCHANGED rankings_store
  /\ UNCHANGED <<rule_vars, merge_vars, material_call, clothing_call, product_call,
                 admin_call, thread_vars, catalog_vars, remap_vars>>

\* the head of "for (ct_id, mat_id), svc_cats in _qfix_services.items()":
\* "if (ct_id, mat_id) in existing: continue"
NextCombination ==
  /\ rank_job.pc = "combo"
  /\ rank_job.todo # <<>>
  /\ rank_job' =
       IF Head(rank_job.todo) \in rank_job.existing
       THEN [rank_job EXCEPT !.todo = Tail(@), !.last = "skipped"]
       ELSE [rank_job EXCEPT !.rankings = <<>>, !.c = 1, !.last = "",
               !.pc = IF qfix_services_cache[Head(rank_job.todo)] = <<>>
                      THEN "persist" ELSE "cats"]
  /\ UNCHANGED rankings_store
  /\ UNCHANGED <<rule_vars, merge_vars, material_call, clothing_call, product_call,
                 admin_call, thread_vars, catalog_vars, remap_vars>>

\* one pass of "for svc_cat in svc_cats", with the answer of the ranking
\* service where it is called
RankOneCategory(answer) ==
  /\ rank_job.pc = "cats"
  /\ LET svc_cats == qfix_services_cache[Head(rank_job.todo)]
         svc_cat == svc_cats[rank_job.c]
         r == RankCategory(svc_cat, answer)
     IN  /\ answer = NoAnswer <=> ~NeedsRanking(svc_cat)
         /\ rank_job' = [rank_job EXCEPT
                           !.rankings = SetRanking(@, r.key, r.ranking),
                           !.errors = @ + r.errors,
                           !.logged = Logged(@, r.logged),
                           !.last = r.kind,
                           !.c = @ + 1,
                           !.pc = IF rank_job.c = Len(svc_cats) THEN "persist" ELSE "cats"]
  /\ UNCHANGED rankings_store
  /\ UNCHANGED <<rule_vars, merge_vars, material_call, clothing_call, product_call,
                 admin_call, thread_vars, catalog_vars, remap_vars>>

\* "wc = get_write_db(); upsert_action_ranking(wc, ct_id, mat_id, rankings)":
\* the write succeeds or raises
Persist(ok) ==
  /\ rank_job.pc = "persist"
  /\ LET k == Head(rank_job.todo)
     IN  IF ok
         THEN /\ rankings_store' = upsert_action_ranking(rankings_store, k[1], k[2],
                                                          rank_job.rankings)
              /\ rank_job' = [rank_job EXCEPT !.ranked = @ + 1, !.logged = Logged(@, "info"),
                                !.last = "persisted", !.todo = Tail(@), !.pc = "combo"]
         ELSE /\ UNCHANGED rankings_store
              /\ rank_job' = [rank_job EXCEPT !.errors = @ + 1, !.logged = Logged(@, "error"),
                                !.last = "persist_failed", !.todo = Tail(@), !.pc = "combo"]
  /\ UNCHANGED <<rule_vars, merge_vars, material_call, clothing_call, product_call,
                 admin_call, thread_vars, catalog_vars, remap_vars>>

\* the loop is over: "return jsonify({...})"
RankFinishes ==
  /\ rank_job.pc = "combo"
  /\ rank_job.todo = <<>>
  /\ rank_job' = [rank_job EXCEPT !.pc = "done",
                    !.response = <<[status |-> 200,
                                    total_combos |-> Cardinality(DOMAIN qfix_services_cache),
                                    already_ranked |-> Cardinality(rank_job.existing),
                                    newly_ranked |-> rank_job.ranked,
                                    errors |-> rank_job.errors]>>]
  /\ UNCHANGED rankings_store
  /\ UNCHANGED <<rule_vars, merge_vars, material_call, clothing_call, product_call,
                 admin_call, thread_vars, catalog_vars, remap_vars>>

\* the answer goes out
RankReturns ==
  /\ rank_job.pc = "done"
  /\ rank_job' = RankIdle
  /\ UNCHANGED rankings_store
  /\ UNCHANGED <<rule_vars, merge_vars, material_call, clothing_call, product_call,
                 admin_call, thread_vars, catalog_vars, remap_vars>>

\* the server stops while the job runs: the run ends where it is, the table
\* keeps what was written
RankInterrupted ==
  /\ rank_job.pc \in {"combo", "cats", "persist"}
  /\ rank_job' = RankIdle
  /\ UNCHANGED rankings_store
  /\ UNCHANGED <<rule_vars, merge_vars, material_call, clothing_call, product_call,
                 admin_call, thread_vars, catalog_vars, remap_vars>>

\* the catalog is loaded, with the pairs of RankServices or with none
RankInit ==
  /\ RulesLoaded /\ MergeIdle /\ NoCallObserved /\ ThreadsIdle /\ RemapIdle /\ RankingIdle
  /\ qfix_items = <<>>
  /\ qfix_subitems = <<>>
  /\ qfix_services_cache \in {RankServices, <<>>}
  /\ qfix_catalog_loaded = TRUE
  /\ loader = [t \in Loaders |-> LoaderIdle]

RankNext ==
  \/ \E api_key \in BOOLEAN, request \in RankRequests :
       rank_job.pc = "idle" /\ RankBegin(api_key, request)
  \/ NextCombination
  \/ \E answer \in RankAnswers \cup {NoAnswer} : rank_job.pc = "cats" /\ RankOneCategory(answer)
  \/ \E ok \in BOOLEAN : rank_job.pc = "persist" /\ Persist(ok)
  \/ RankFinishes
  \/ RankReturns
  \/ RankInterrupted

\* runs of the ranking job
SpecRank == RankInit /\ [][RankNext]_vars

(***************************************************************************)
(* Claims about the merge                                                  *)
(***************************************************************************)
MergeDone == merge_pc = "done"

\* an exclusion (injection) rule of category cat has a keyword in product_text
ExclusionMatched(cat) ==
  \E i \in 1..Len(KEYWORD_EXCLUSION_RULES) :
    /\ KEYWORD_EXCLUSION_RULES[i].category = cat
    /\ AnyKeywordIn(KEYWORD_EXCLUSION_RULES[i].keywords, product_text)

InjectionMatched(cat) ==
  \E i \in 1..Len(KEYWORD_ACTION_RULES) :
    /\ KEYWORD_ACTION_RULES[i].category = cat
    /\ AnyKeywordIn(KEYWORD_ACTION_RULES[i].keywords, product_text)

\* the names excluded for cat by the exclusion rules that match product_text
ExcludedNames(cat) ==
  UNION {KEYWORD_EXCLUSION_RULES[i].exclude_actions :
           i \in {j \in 1..Len(KEYWORD_EXCLUSION_RULES) :
                    /\ KEYWORD_EXCLUSION_RULES[j].category = cat
                    /\ AnyKeywordIn(KEYWORD_EXCLUSION_RULES[j].keywords, product_text)}}

\* C1: every category of the merge output holds at most 5 actions, for every
\* ranking input and every product text, the empty one included.
C1_AtMostFivePerCategory ==
  MergeDone => \A cat \in DOMAIN merged : Len(merged[cat]) <= 5

\* C2: the output of a category contains no action named in an exclusion rule
\* of that category whose keywords occur in product_text, whether the action
\* came from the AI pool or from keyword injection.
C2_NoExcludedActionInOutput ==
  MergeDone =>
    \A cat \in DOMAIN merged :
      \A k \in 1..Len(merged[cat]) : merged[cat][k].name \notin ExcludedNames(cat)

C4_UnmatchedCategoryIsTruncatedPool ==
  MergeDone =>
    \A cat \in DOMAIN top_actions :
      (~ExclusionMatched(cat) /\ ~InjectionMatched(cat)) =>
        /\ cat \in DOMAIN merged
        /\ merged[cat] = Prefix(top_actions[cat], 5)

\* C5: with only exclusion rules matching for a category, its output is the
\* first 5 entries of the pool with the excluded names removed, in their
\* original relative order (entries 6-10 move up).
C5_ExclusionThenTruncation ==
  MergeDone =>
    \A cat \in DOMAIN top_actions :
      (ExclusionMatched(cat) /\ ~InjectionMatched(cat)) =>
        /\ cat \in DOMAIN merged
        /\ merged[cat] = Prefix(ApplyExclusion(top_actions[cat], ExcludedNames(cat)), 5)

(***************************************************************************)
(* Claims about the material resolver                                      *)
(***************************************************************************)
CanonicalMaterials ==
  {"Standard textile", "Linen/Wool", "Cashmere", "Silk", "Leather/Suede", "Down", "Fur",
   "Other/Unsure"}

\* the mapping of one name for a brand: the brand override when it has a
\* non-null one, else the global entry; <<>> when the name maps to null or is
\* not mapped
MappingOf(name, brand) ==
  LET key == LowerText(name)
      own == IF brand # "" /\ brand \in DOMAIN BRAND_MATERIAL_OVERRIDES
             THEN BRAND_MATERIAL_OVERRIDES[brand] ELSE <<>>
  IN  IF key \in DOMAIN own /\ own[key] # <<>> THEN own[key]
      ELSE IF key \in DOMAIN MATERIAL_MAP THEN MATERIAL_MAP[key]
      ELSE <<>>

\* the text carries percentage markup
HasMarkup(text) == PctFirstMatches(text) # <<>> \/ RevMatches(text) # <<>>

\* the pairs list of a text with markup: percentage-first when that form
\* occurs, name-first otherwise
PairsOf(text) == IF PctFirstMatches(text) # <<>> THEN PctFirstMatches(text) ELSE RevMatches(text)

\* among the pairs with an index in S: the one with the highest percentage,
\* the first of them on a tie
Highest(pairs, S) ==
  CHOOSE i \in S : \A j \in S : pairs[j].pct < pairs[i].pct
                                  \/ (pairs[j].pct = pairs[i].pct /\ j >= i)

\* the pairs that have a non-null mapping
MappedPairs(pairs, brand) == {i \in 1..Len(pairs) : MappingOf(pairs[i].name, brand) # <<>>}

\* the whole text looked up as a bare name
BareResult(text, brand) ==
  LET key == LowerText(text)
      own == IF brand # "" /\ brand \in DOMAIN BRAND_MATERIAL_OVERRIDES
             THEN BRAND_MATERIAL_OVERRIDES[brand] ELSE <<>>
      hit == IF key \in DOMAIN own THEN own[key]
             ELSE IF key \in DOMAIN MATERIAL_MAP THEN MATERIAL_MAP[key] ELSE <<>>
  IN  IF hit # <<>> THEN hit[1] ELSE "Other/Unsure"

\* C7: after any sequence of accepted admin mutations of the material rules,
\* map_material answers every text and brand with a member of the canonical
\* material set, never with null or an empty value.
C7_MaterialAlwaysCanonical ==
  material_call # <<>> => material_call[1].result \in CanonicalMaterials

\* C7 witness: an accepted brand override is in force and decides the answer
C7_Witness ==
  /\ material_call # <<>>
  /\ material_call[1].brand = "eton"
  /\ material_call[1].text = <<Pct(60), Word("Foo"), Pct(40), Word("Bomull")>>
  /\ Get(Get(BRAND_MATERIAL_OVERRIDES, "eton"), Key("foo")) = <<"Silk">>
  /\ Key("foo") \notin DOMAIN MATERIAL_MAP
  /\ material_call[1].result = "Silk"

\* C8 as stated: with percentage markup the answer is the mapping of the name
\* with the highest percentage (the first on a tie), and "Other/Unsure" when
\* that name maps to null or is not mapped.
C8_HighestNameDecides ==
  (material_call # <<>> /\ HasMarkup(material_call[1].text)) =>
    LET c     == material_call[1]
        pairs == PairsOf(c.text)
        top   == pairs[Highest(pairs, 1..Len(pairs))]
    IN  c.result = IF MappingOf(top.name, c.brand) # <<>>
                   THEN MappingOf(top.name, c.brand)[1] ELSE "Other/Unsure"

\* C8 amended: with percentage markup the answer is the mapping of the
\* highest-percentage name among the names that have a non-null mapping (the
\* first of them on a tie), taken from the percentage-first pairs when one of
\* them is mapped and else from the name-first pairs; when no name of either
\* list is mapped it is the bare lookup of the whole text, "Other/Unsure"
\* when that is null or missing.
C8_HighestMappedNameDecides ==
  (material_call # <<>> /\ HasMarkup(material_call[1].text)) =>
    LET c  == material_call[1]
        p1 == PctFirstMatches(c.text)
        p2 == RevMatches(c.text)
        m1 == MappedPairs(p1, c.brand)
        m2 == MappedPairs(p2, c.brand)
    IN  c.result = IF m1 # {} THEN MappingOf(p1[Highest(p1, m1)].name, c.brand)[1]
                   ELSE IF m2 # {} THEN MappingOf(p2[Highest(p2, m2)].name, c.brand)[1]
                   ELSE BareResult(c.text, c.brand)

\* C8 witness: the highest-percentage name maps to null and a lower one
\* decides
C8_Witness ==
  /\ material_call # <<>>
  /\ material_call[1].text = <<Pct(60), Word("Metall"), Pct(40), Word("Bomull")>>
  /\ MappingOf(<<Word("Metall")>>, material_call[1].brand) = <<>>
  /\ material_call[1].result = "Standard textile"

(***************************************************************************)
(* Claims about the clothing-type resolver                                 *)
(***************************************************************************)
\* the exact overrides of a brand
OverridesOf(brand) ==
  IF brand # "" /\ brand \in DOMAIN BRAND_CLOTHING_TYPE_OVERRIDES
  THEN BRAND_CLOTHING_TYPE_OVERRIDES[brand] ELSE <<>>

\* the call went past the empty-path and generic-segment steps
PathResolved(c) == c.path # <<>> /\ PathParts(c.path) # <<>>

FullKey(c) == Join(PathParts(c.path), <<" ", ">", " ">>)

FirstSegment(c) == PathParts(c.path)[1]

\* the rule tables without the exact override of brand for key
RulesWithoutOverride(brand, key) ==
  [Rules EXCEPT !.BRAND_CLOTHING_TYPE_OVERRIDES =
     (brand :> [k \in (DOMAIN @[brand]) \ {key} |-> @[brand][k]]) @@ @]

\* a call for another brand or for no brand answers as if the override did
\* not exist
OverridesIsolated(c) ==
  \A brand \in DOMAIN BRAND_CLOTHING_TYPE_OVERRIDES :
    \A key \in DOMAIN BRAND_CLOTHING_TYPE_OVERRIDES[brand] :
      c.brand # brand =>
        c.result = map_clothing_type(RulesWithoutOverride(brand, key), c.path, c.brand,
                                     c.product_name, c.description)

\* C9 as stated: a brand exact override for key K decides the clothing type
\* for that brand whenever K is the full joined path or the first segment,
\* even if a global exact rule for K exists; other brands and no-brand calls
\* are unaffected.
C9_OverrideDecides ==
  clothing_call # <<>> =>
    LET c == clothing_call[1]
    IN  /\ PathResolved(c) =>
             \A key \in DOMAIN OverridesOf(c.brand) :
               (key = FullKey(c) \/ key = FirstSegment(c)) =>
                 c.result = OverridesOf(c.brand)[key]
        /\ OverridesIsolated(c)

\* C9 amended: a brand exact override for key K decides the clothing type
\* for that brand whenever K is the full joined path, or K is the first
\* segment and the brand has no override for the full joined path, even if a
\* global exact rule for K exists; other brands and no-brand calls are
\* unaffected.
C9_OverrideDecidesFullPathFirst ==
  clothing_call # <<>> =>
    LET c == clothing_call[1]
    IN  /\ PathResolved(c) =>
             \A key \in DOMAIN OverridesOf(c.brand) :
               (key = FullKey(c)
                  \/ (key = FirstSegment(c) /\ FullKey(c) \notin DOMAIN OverridesOf(c.brand))) =>
                 c.result = OverridesOf(c.brand)[key]
        /\ OverridesIsolated(c)

\* C9 witness: the override of the first segment decides against a global
\* exact rule with another type, and the brand also has a full-path override
C9_Witness ==
  /\ clothing_call # <<>>
  /\ clothing_call[1].brand = "eton"
  /\ clothing_call[1].path = <<"D", "a", "m", " ", ">", " ", "S", "k", "j", "o", "r", "t", "o", "r">>
  /\ Get(OverridesOf("eton"), <<"s", "k", "j", "o", "r", "t", "o", "r">>) = <<"Cap">>
  /\ Get(OverridesOf("eton"), <<"s", "k", "j", "o", "r", "t", "o", "r", " ", ">", " ", "c", "a", "s", "u", "a", "l">>) = <<"Belt">>
  /\ Get(CLOTHING_TYPE_MAP, <<"s", "k", "j", "o", "r", "t", "o", "r">>) = <<"Shirt / Blouse">>
  /\ clothing_call[1].result = <<"Cap">>

\* the keywords of the branches of the Eton accessory block
EtonAccessoryKeywords ==
  <<<<"b", "a", "d", "s", "h", "o", "r", "t", "s">>, <<"s", "w", "i", "m", " ", "s", "h", "o", "r", "t", "s">>, <<"b", "a", "d", "b", "y", "x", "o", "r">>, <<"s", "c", "a", "r", "f">>, <<"h", "a", "l", "s", "d", "u", "k">>, <<"b", "a", "n", "d", "a", "n", "a">>, <<"m", "ö", "s", "s", "a">>,
    <<"m", "o", "s", "s", "a">>, <<"b", "e", "a", "n", "i", "e">>, <<"k", "e", "p", "s">>, <<"b", "a", "s", "e", "b", "a", "l", "l", "k", "e", "p", "s">>, <<"c", "a", "p">>, <<"b", "u", "c", "k", "e", "t", " ", "h", "a", "t">>, <<"b", "ä", "l", "t", "e">>, <<"b", "e", "l", "t">>>>

\* no exact override of the brand applies to the call
NoOverrideApplies(c) ==
  /\ FullKey(c) \notin DOMAIN OverridesOf(c.brand)
  /\ FirstSegment(c) \notin DOMAIN OverridesOf(c.brand)

\* the call enters the Eton accessory block, or the KappAhl accessory block
\* of a path with sub-segments, and no branch of the block matches
AccessoryBlockUnmatched(c) ==
  /\ PathResolved(c)
  /\ NoOverrideApplies(c)
  /\ FirstSegment(c) = <<"a", "c", "c", "e", "s", "s", "o", "a", "r", "e", "r">>
  /\ \/ /\ c.brand = "eton"
        /\ ~AnyKeywordIn(EtonAccessoryKeywords, ProductText(c.product_name, c.description))
     \/ /\ c.brand = "kappahl"
        /\ Len(PathParts(c.path)) > 1
        /\ \A i \in 2..Len(PathParts(c.path)) : PathParts(c.path)[i] \notin DOMAIN ACCESSORY_SUB_MAP

\* C10 as stated: when a brand block is entered and none of its branches
\* matches, resolution goes on with the global exact map, the brand keyword
\* override and the global keyword fallback.
C10_UnmatchedBlockFallsThrough ==
  (clothing_call # <<>> /\ AccessoryBlockUnmatched(clothing_call[1])) =>
    LET c == clothing_call[1]
    IN  c.result = GlobalChain(Rules, c.path, c.brand, FirstSegment(c))

\* C10 amended: when the Eton accessory block, or the KappAhl accessory
\* block of a path with sub-segments, is entered and none of its branches
\* matches, resolution ends with no result, whatever the later steps would
\* give; the later steps are reached when no block of the brand is entered
\* for the first segment.
C10_UnmatchedBlockEndsWithoutResult ==
  clothing_call # <<>> =>
    LET c == clothing_call[1]
    IN  /\ AccessoryBlockUnmatched(c) => c.result = <<>>
        /\ (PathResolved(c) /\ NoOverrideApplies(c)
              /\ ~BrandSubMapping(c.brand, FirstSegment(c), PathParts(c.path),
                                  ProductText(c.product_name, c.description)).returned) =>
             c.result = GlobalChain(Rules, c.path, c.brand, FirstSegment(c))

\* C10 witness: the Eton accessory block ends without a result although a
\* keyword override of the brand matches the path
C10_Witness ==
  /\ clothing_call # <<>>
  /\ clothing_call[1].brand = "eton"
  /\ clothing_call[1].path = <<"A", "c", "c", "e", "s", "s", "o", "a", "r", "e", "r", " ", ">", " ", "S", "l", "i", "p", "s", "a", "r">>
  /\ AccessoryBlockUnmatched(clothing_call[1])
  /\ GlobalChain(Rules, clothing_call[1].path, "eton", <<"a", "c", "c", "e", "s", "s", "o", "a", "r", "e", "r">>) = <<"Scarf / Shawl">>
  /\ clothing_call[1].result = <<>>

(***************************************************************************)
(* Claims about the catalog ID resolver and the classification results     *)
(***************************************************************************)
\* both ids of a classification result are resolved
BothIdsResolved(r) == r.qfix_clothing_type_id # <<>> /\ r.qfix_material_id # <<>>

\* C11 as stated: in every classification result (current, legacy, v2 and
\* image-based) the booking URL is present if and only if both the clothing
\* type id and the material id resolved.
C11_UrlIffBothIds ==
  product_call # <<>> =>
    LET r == product_call[1].result
    IN  r.qfix_url # <<>> <=> BothIdsResolved(r)

\* C11 amended: in every result of the current, legacy and v2 classification
\* the booking URL is present if and only if both ids resolved, and it
\* carries these two ids; in an image-based result it is present if and only
\* if the clothing type id resolved, and it carries the material id only
\* when that resolved too.
C11_UrlIffBothIdsOrImageTypeId ==
  product_call # <<>> =>
    LET c == product_call[1]
        r == c.result
    IN  /\ r.qfix_url # <<>> <=>
             IF c.kind = "image" THEN r.qfix_clothing_type_id # <<>> ELSE BothIdsResolved(r)
        /\ r.qfix_url # <<>> =>
             r.qfix_url[1] = [category_id |-> r.qfix_clothing_type_id[1],
                              material_id |-> r.qfix_material_id]

\* C11 witness: the current catalog resolves the clothing type id but no
\* material id, and gives no booking URL
C11_Witness ==
  /\ product_call # <<>>
  /\ product_call[1].kind = "current"
  /\ product_call[1].result.qfix_clothing_type_id = <<206>>
  /\ product_call[1].result.qfix_material = "Silk"
  /\ product_call[1].result.qfix_material_id = <<>>
  /\ product_call[1].result.qfix_url = <<>>

\* the valid-material set of clothing type id in the catalog a call used:
\* (material id, material name) pairs
ValidSetOf(kind, clothing_type_id) ==
  IF kind = "legacy"
  THEN IF clothing_type_id \in DOMAIN VALID_MATERIAL_IDS_LEGACY
       THEN Range(VALID_MATERIAL_IDS_LEGACY[clothing_type_id]) ELSE {}
  ELSE IF clothing_type_id \in DOMAIN VALID_MATERIAL_IDS
       THEN Range(VALID_MATERIAL_IDS[clothing_type_id]) ELSE {}

\* the ids that carry name in a valid-material set
IdsNamed(valid, name) == {p[1] : p \in {q \in valid : q[2] = name}}

\* C12: given a resolved clothing type id and a resolved material name, the
\* material id is the id that carries that name in the valid-material set of
\* the clothing type; when the name is not in the set it is the set's
\* "Other/Unsure" id if there is one, and otherwise there is no material id.
\* A material id is always a member of the set.
C12_MaterialIdFromValidSet ==
  (/\ product_call # <<>>
   /\ product_call[1].result.qfix_clothing_type_id # <<>>
   /\ product_call[1].result.qfix_material # "") =>
    LET c     == product_call[1]
        r     == c.result
        valid == ValidSetOf(c.kind, r.qfix_clothing_type_id[1])
        named == IdsNamed(valid, r.qfix_material)
        other == IdsNamed(valid, "Other/Unsure")
    IN  /\ IF named # {} THEN r.qfix_material_id # <<>> /\ r.qfix_material_id[1] \in named
           ELSE IF other # {} THEN r.qfix_material_id # <<>> /\ r.qfix_material_id[1] \in other
           ELSE r.qfix_material_id = <<>>
        /\ r.qfix_material_id # <<>> => r.qfix_material_id[1] \in {p[1] : p \in valid}

\* C12 witness: the material resolved for a pair of sneakers is not a shoe
\* material, the "Other/Unsure" id of the shoe materials is given
C12_Witness ==
  /\ product_call # <<>>
  /\ product_call[1].kind = "current"
  /\ product_call[1].result.qfix_clothing_type_id = <<112>>
  /\ product_call[1].result.qfix_material = "Leather/Suede"
  /\ IdsNamed(ValidSetOf("current", 112), "Leather/Suede") = {}
  /\ product_call[1].result.qfix_material_id = <<191>>

\* the subcategory has an override id for the clothing type
HasOverride(subcategory_name, clothing_name) ==
  /\ subcategory_name \in DOMAIN CLOTHING_TYPE_OVERRIDES
  /\ clothing_name \in DOMAIN CLOTHING_TYPE_OVERRIDES[subcategory_name]

\* C13: in a classification result with a resolved subcategory the clothing
\* type id is the entry of the subcategory's override table when that table
\* has one for the canonical type, and the entry of the default id table
\* only when it has none.
C13_OverrideTableFirst ==
  (/\ product_call # <<>>
   /\ product_call[1].kind # "v2"
   /\ product_call[1].result.qfix_clothing_type # <<>>) =>
    LET r    == product_call[1].result
        name == r.qfix_clothing_type[1]
    IN  IF HasOverride(r.qfix_subcategory, name)
        THEN r.qfix_clothing_type_id = <<CLOTHING_TYPE_OVERRIDES[r.qfix_subcategory][name]>>
        ELSE r.qfix_clothing_type_id =
               IF product_call[1].kind = "legacy"
               THEN Lookup(QFIX_CLOTHING_TYPE_IDS_LEGACY, name)
               ELSE Lookup(QFIX_CLOTHING_TYPE_IDS, name)

\* C14: whenever map_product_legacy resolves a canonical clothing type,
\* map_product resolves the same name for the same product and brand, and
\* whenever map_product_legacy gives a booking URL map_product gives one too.
C14_CurrentCoversLegacy ==
  (product_call # <<>> /\ product_call[1].kind = "legacy") =>
    LET c       == product_call[1]
        legacy  == c.result
        current == map_product(Rules, c.product, c.brand)
    IN  /\ legacy.qfix_clothing_type # <<>> =>
             current.qfix_clothing_type = legacy.qfix_clothing_type
        /\ legacy.qfix_url # <<>> => current.qfix_url # <<>>

\* C14 witness: the legacy catalog gives a booking URL for a children's
\* shirt of silk; the current catalog has another clothing type id for it,
\* without silk among its materials
C14_Witness ==
  /\ product_call # <<>>
  /\ product_call[1].kind = "legacy"
  /\ product_call[1].result.qfix_subcategory = "Children's Clothing"
  /\ product_call[1].result.qfix_url = <<[category_id |-> 89, material_id |-> <<213>>]>>
  /\ map_product(Rules, product_call[1].product, product_call[1].brand).qfix_url =
       <<[category_id |-> 194, material_id |-> <<73>>]>>

(***************************************************************************)
(* Claims about the admin endpoints                                        *)
(***************************************************************************)
\* the valid canonical names for the targets of a rule type
ValidTargets(rule_type) ==
  IF rule_type = "material" THEN valid_materials ELSE DOMAIN QFIX_CLOTHING_TYPE_IDS

\* a rule with a source, of a known rule type, whose target is outside the
\* valid canonical set ("" is the default rule type)
InvalidTarget(rule_type, from, to) ==
  LET rt == IF rule_type = "" THEN "clothing_type" ELSE rule_type
  IN  /\ rt \in {"clothing_type", "material"}
      /\ NormFrom(rt, from) # <<>>
      /\ StripName(to) # ""
      /\ StripName(to) \notin ValidTargets(rt)

\* the suggestions of a request without those with an invalid target
WithoutInvalidTargets(suggestions) ==
  SelectSeq(suggestions, LAMBDA s : ~InvalidTarget(s.rule_type, s.from, s.to))

\* the request just answered is one that the endpoint looks into
AdminRequestAnswered(c) ==
  c # <<>> /\ (c[1].endpoint = "remap_apply" => c[1].response.status = 200)

\* a rejected add-mapping request: status 400, the valid set listed
AddMappingRejected(c) ==
  /\ c.response.status = 400
  /\ IF c.mapping_type = "material"
     THEN c.response.valid_materials = valid_materials
     ELSE c.response.valid_types = DOMAIN QFIX_CLOTHING_TYPE_IDS

\* C15 as stated: an admin mutation whose target is outside the valid
\* canonical set is rejected with a validation error that names the valid
\* set, and it adds or changes no entry of any rule table.
C15_RejectedNamingValidSet ==
  [][AdminRequestAnswered(admin_call') =>
       LET c == admin_call'[1]
       IN  IF c.endpoint = "add_mapping"
           THEN InvalidTarget(c.mapping_type, c.from, c.to) =>
                  AddMappingRejected(c) /\ UNCHANGED rule_vars
           ELSE /\ \A i \in 1..Len(c.suggestions) :
                     LET s == c.suggestions[i]
                     IN  InvalidTarget(s.rule_type, s.from, s.to) =>
                           \E j \in 1..Len(c.response.errors) :
                             LET e == c.response.errors[j]
                             IN  /\ e.from = NormFrom(s.rule_type, s.from)
                                 /\ \/ /\ "valid_types" \in DOMAIN e
                                       /\ e.valid_types = ValidTargets(s.rule_type)
                                    \/ /\ "valid_materials" \in DOMAIN e
                                       /\ e.valid_materials = ValidTargets(s.rule_type)
                /\ Rules' = remap_apply(Rules, c.brand, WithoutInvalidTargets(c.suggestions))
    ]_vars

\* C15 amended: POST /unmapped/add rejects a target outside the valid
\* canonical set with status 400 and an error that lists the valid set, and
\* changes no rule table.  POST /remap/apply answers 200 and reports each
\* suggestion with such a target in "errors", with its source and the
\* rejected target but without the valid set; the rule tables come out as if
\* these suggestions had not been in the request, the other suggestions of the
\* request being applied.
C15_RejectedWithoutTableChange ==
  [][AdminRequestAnswered(admin_call') =>
       LET c == admin_call'[1]
       IN  IF c.endpoint = "add_mapping"
           THEN InvalidTarget(c.mapping_type, c.from, c.to) =>
                  AddMappingRejected(c) /\ UNCHANGED rule_vars
           ELSE /\ \A i \in 1..Len(c.suggestions) :
                     LET s  == c.suggestions[i]
                         rt == IF s.rule_type = "" THEN "clothing_type" ELSE s.rule_type
                     IN  InvalidTarget(s.rule_type, s.from, s.to) =>
                           \E j \in 1..Len(c.response.errors) :
                             c.response.errors[j] =
                               [from |-> NormFrom(rt, s.from),
                                error |-> <<IF rt = "material" THEN "Invalid material"
                                            ELSE "Invalid QFix type", StripName(s.to)>>]
                /\ Len(c.response.applied) + Len(c.response.errors) = Len(c.suggestions)
                /\ Rules' = remap_apply(Rules, c.brand, WithoutInvalidTargets(c.suggestions))
    ]_vars

\* C15 witness: a request with an invalid material target and a valid rule
\* has been answered; the valid rule is in the brand's table, the other is not
C15_Witness ==
  /\ admin_call # <<>>
  /\ admin_call[1].endpoint = "remap_apply"
  /\ admin_call[1].brand = "eton"
  /\ admin_call[1].suggestions =
       <<Suggestion(<<Word("Bomull")>>, "Plastic", "material", "exact"),
         Suggestion(<<Word("Foo")>>, " Silk ", "material", "")>>
  /\ admin_call[1].response.errors =
       <<[from |-> Key("bomull"), error |-> <<"Invalid material", "Plastic">>]>>
  /\ BRAND_MATERIAL_OVERRIDES = ("eton" :> (Key("foo") :> <<"Silk">>))

\* the tables before the rule that the request in progress is at, and the
\* tables after it
RulesBeforeWrite == IF apply_pc = <<>> THEN Rules ELSE apply_pc[1].before

RulesAfterWrite ==
  IF apply_pc = <<>> \/ apply_pc[1].i > Len(apply_pc[1].suggestions) THEN RulesBeforeWrite
  ELSE ApplySuggestion(apply_pc[1].before, apply_pc[1].brand,
                       apply_pc[1].suggestions[apply_pc[1].i])

\* C16: every operation of the loop of remap_apply leaves the tables, as a
\* reader finds them, either as they were before the rule it is writing or
\* as they are after it; and every read of a rule by a map_clothing_type
\* call running meanwhile finds the rule as it was before the write in
\* progress or as it is after it, never a rule with a part missing.
C16_WholeRuleWrites ==
  [][/\ (apply_pc # <<>> /\ apply_pc' # apply_pc) =>
          Visible(Rules') \in {Visible(RulesBeforeWrite), Visible(RulesAfterWrite)}
     /\ (reader # <<>> /\ reader' # <<>> /\ reader' # reader /\ reader'[1].last # <<>>) =>
          reader'[1].last[1].value \in {SeenIn(RulesBeforeWrite, reader'[1].last[1].read),
                                        SeenIn(RulesAfterWrite, reader'[1].last[1].read)}
    ]_vars

\* C16 witness: while a request for eton is at its second rule, between the
\* setdefault and the store, a call has found the first rule of the request
\* in the brand's table and returned its target
C16_Witness ==
  /\ apply_pc # <<>>
  /\ apply_pc[1].brand = "eton"
  /\ apply_pc[1].suggestions =
       <<Suggestion(<<"S", "k", "j", "o", "r", "t", "o", "r">>, " Cap ", "", ""),
         Suggestion(<<"S", "l", "i", "p", "s">>, "Scarf / Shawl", "", "keyword")>>
  /\ apply_pc[1].i = 2
  /\ apply_pc[1].phase = "store"
  /\ reader # <<>>
  /\ reader[1].last =
       <<[read |-> Read("BRAND_CLOTHING_TYPE_OVERRIDES", "eton", <<"s", "k", "j", "o", "r", "t", "o", "r">>),
          value |-> <<<<"Cap">>>>]>>
  /\ reader[1].result = <<"Cap">>

\* the one-read-at-a-time form of map_clothing_type gives the answer of
\* map_clothing_type when the tables do not change during the call
ReadStepsAgree ==
  \A path \in ConcurrentPaths, brand \in ConcurrentBrands :
    ReadToEnd(Rules, ReadBegin(path, brand)) = map_clothing_type(Rules, path, brand, <<>>, <<>>)

(***************************************************************************)
(* Claims about the catalog cache                                          *)
(***************************************************************************)
\* a call that found the flag set never fetches or stores
NoFetchAfterLoaded(l) == l.saw_loaded => l.pc \notin {"fetch", "build", "store"}

\* C17: the catalog is fetched lazily and once: a call of the loader or of
\* enrich_qfix that starts after a load has succeeded performs no fetch, and
\* from the moment the flag is set the cached tree never changes again.
C17_FetchedOnceThenUnchanged ==
  [][/\ \A t \in Loaders : NoFetchAfterLoaded(loader'[t])
     /\ qfix_catalog_loaded => (qfix_catalog_loaded' /\ UNCHANGED cache_vars)
    ]_vars

\* the part of C17 about the calls that start after a successful load, which
\* holds
C17_NoFetchByLaterCalls == \A t \in Loaders : NoFetchAfterLoaded(loader[t])

\* the names and ids of a classification result are those handed in
SameNamesAndIds(qfix, result) == \A f \in DOMAIN qfix : result[f] = qfix[f]

\* no load has stored anything
CachesEmpty == qfix_items = <<>> /\ qfix_subitems = <<>> /\ qfix_services_cache = <<>>

\* a fetch of thread t fails in this step
FetchFailsIn(t) == loader[t].pc = "fetch" /\ loader'[t].failed

\* thread t performs the reads of enrich_qfix in this step
EnrichesIn(t) == loader[t].pc = "enrich" /\ loader'[t].pc = "return"

\* C18 as stated: a failing fetch is not propagated and leaves the cache as
\* it was, and the classification result comes back with the same names and
\* ids and, the cache being empty, without any catalog-derived field.
C18_FailureLeavesNoEnrichment ==
  [][\A t \in Loaders :
       /\ FetchFailsIn(t) =>
            /\ loader'[t].pc = "enrich"
            /\ UNCHANGED <<cache_vars, qfix_catalog_loaded>>
       /\ EnrichesIn(t) =>
            /\ SameNamesAndIds(loader'[t].qfix[1], loader'[t].result[1])
            /\ CachesEmpty => DOMAIN loader'[t].result[1] = DOMAIN loader'[t].qfix[1]
    ]_vars

\* C18 amended: a failing fetch is not propagated and leaves the cache and
\* the flag as they were; the classification result comes back with the same
\* names and ids; with an empty cache it carries no qfix_item and no
\* qfix_subitem, and it carries qfix_services exactly when both ids resolved,
\* as an empty list.
C18_FailureLeavesEmptyServices ==
  [][\A t \in Loaders :
       /\ FetchFailsIn(t) =>
            /\ loader'[t].pc = "enrich"
            /\ UNCHANGED <<cache_vars, qfix_catalog_loaded>>
       /\ EnrichesIn(t) =>
            LET qfix   == loader'[t].qfix[1]
                result == loader'[t].result[1]
            IN  /\ SameNamesAndIds(qfix, result)
                /\ CachesEmpty =>
                     /\ DOMAIN result \ DOMAIN qfix \subseteq {"qfix_services"}
                     /\ "qfix_services" \in DOMAIN result <=>
                          (qfix.qfix_clothing_type_id # <<>> /\ qfix.qfix_material_id # <<>>)
                     /\ "qfix_services" \in DOMAIN result => result.qfix_services = <<>>
    ]_vars

\* C18 witness: a call of enrich_qfix whose fetch failed has returned, the
\* cache empty, with both ids and an empty list of services
C18_Witness ==
  \E t \in Loaders :
    /\ loader[t].pc = "return"
    /\ loader[t].failed
    /\ CachesEmpty
    /\ ~qfix_catalog_loaded
    /\ loader[t].result =
         <<[qfix_services |-> <<>>] @@
           QfixResult(<<"Shirt / Blouse">>, <<173>>, "Standard textile", <<69>>)>>

\* the cache that one load of a tree builds
SingleLoad(tree) ==
  BuildAll(CacheWith(<<>>, <<>>, <<>>), BuildStores(tree))

\* C19: loading is safe to race: once the flag is set and every call has
\* returned, the cache holds what a single load of one upstream answer
\* produces.
C19_RacingLoadsConverge ==
  (qfix_catalog_loaded /\ \A t \in Loaders : loader[t].pc = "idle") =>
    \E tree \in Trees : Caches = SingleLoad(tree)

(***************************************************************************)
(* Claims about the batch job                                              *)
(***************************************************************************)
\* the rows of the full batches that lie before the point of failure: a row
\* that fails belongs to the batch in flight, a commit that fails loses the
\* batch it was to commit
RowsOfCommittedBatches(job) ==
  1..(BatchSize * ((IF job.failed_in = "row" THEN job.i ELSE job.i - 1) \div BatchSize))

\* C20: the job writes in transactional batches of 100 rows: the open
\* transaction never holds more than 100 rows; after a failure the committed
\* rows are those committed before the run and those of the full batches
\* before the failing one, the batch in flight being rolled back; after a
\* run without failure every row is committed.
C20_OnlyInFlightBatchRolledBack ==
  /\ Cardinality(txn) <= BatchSize
  /\ remap_job.pc = "failed" =>
       /\ txn = {}
       /\ db = remap_job.before \cup RowsOfCommittedBatches(remap_job)
  /\ remap_job.pc = "done" =>
       /\ txn = {}
       /\ db = remap_job.before \cup 1..remap_job.total

\* C20 witness: the first run fails on row 102; the first batch of 100 rows
\* is committed, row 101 is rolled back
C20_Witness ==
  /\ remap_job.pc = "failed"
  /\ remap_job.failed_in = "row"
  /\ remap_job.before = {}
  /\ remap_job.i = BatchSize + 1
  /\ remap_job.total > BatchSize + 1
  /\ db = 1..BatchSize

\* C21: a run that fails answers with its partial progress: the rows it
\* processed and the rows it committed before the failure.
C21_FailureReportsPartialCounts ==
  remap_job.pc = "failed" =>
    /\ remap_job.response # <<>>
    /\ "updated" \in DOMAIN remap_job.response[1]
    /\ remap_job.response[1].updated = Cardinality(RowsOfCommittedBatches(remap_job))

\* a run without failure answers with its counts (what C21 expects of a
\* failed run as well)
C21_SuccessReportsCounts ==
  remap_job.pc = "done" =>
    /\ remap_job.response = <<Counts(remap_job)>>
    /\ remap_job.response[1].updated = remap_job.total

(***************************************************************************)
(* Claims about the ranking job                                            *)
(***************************************************************************)
\* whether the request asks for the pair to be ranked again
Forced(request, k) == request.force_all \/ k[1] \in request.force_clothing_type_ids

\* the pairs whose stored ranking differs between two states of the table
ChangedPairs(before, after) ==
  {k \in DOMAIN before \cup DOMAIN after :
     ~(k \in DOMAIN before /\ k \in DOMAIN after /\ before[k] = after[k])}

\* C22: the ranking job is resumable.  No step removes a stored ranking; a step
\* writes at most one pair; the step that persists a pair leaves its rankings
\* in the table at once; the run passes over a pair exactly when the pair was
\* stored when the run began and the request does not force it, and a stored
\* pair that is not forced keeps its ranking.
C22_ResumableRanking ==
  [][/\ DOMAIN rankings_store \subseteq DOMAIN rankings_store'
     /\ Cardinality(ChangedPairs(rankings_store, rankings_store')) <= 1
     /\ \A k \in ChangedPairs(rankings_store, rankings_store') :
          k \in rank_job.stored => Forced(rank_job.request, k)
     /\ (rank_job.pc = "persist" /\ rank_job'.last = "persisted") =>
          /\ Head(rank_job.todo) \in DOMAIN rankings_store'
          /\ rankings_store'[Head(rank_job.todo)] = rank_job.rankings
     /\ (rank_job.pc = "combo" /\ rank_job'.pc \in {"cats", "persist"}) =>
          ~(Head(rank_job.todo) \in rank_job.stored
            /\ ~Forced(rank_job.request, Head(rank_job.todo)))
     /\ (rank_job.pc = "combo" /\ rank_job'.pc = "combo" /\ rank_job'.todo # rank_job.todo) =>
          /\ Head(rank_job.todo) \in rank_job.stored
          /\ ~Forced(rank_job.request, Head(rank_job.todo))
    ]_vars

\* C22 witness: a run without force that found the first pair stored, passed
\* over it and ranked the other two
C22_Witness ==
  /\ rank_job.pc = "done"
  /\ ~rank_job.request.force_all
  /\ rank_job.request.force_clothing_type_ids = {}
  /\ rank_job.stored = {<<173, 69>>}
  /\ rank_job.ranked = 2
  /\ DOMAIN rankings_store = DOMAIN RankServices

\* the log records of the failures of the ranking service
FailureRecords(logged) == logged.info + logged.warning

\* C23 as stated: an error of the ranking service and an answer that is not
\* JSON are both logged and counted in errors, leave an empty ranking for the
\* category, and the job goes on.
C23_FailureLoggedAndCounted ==
  [][(rank_job.pc = "cats" /\ rank_job'.last \in {"ai_error", "non_json"}) =>
       /\ rank_job'.errors = rank_job.errors + 1
       /\ FailureRecords(rank_job'.logged) = FailureRecords(rank_job.logged) + 1
       /\ \E key \in DOMAIN rank_job'.rankings : rank_job'.rankings[key] = <<>>
       /\ rank_job'.pc \in {"cats", "persist"}
    ]_vars

\* C23 amended: both are logged, leave an empty ranking for the category and
\* let the job go on; only the error of the ranking service is counted in
\* errors, the answer that is not JSON is not.
C23_FailureLoggedErrorCounted ==
  [][(rank_job.pc = "cats" /\ rank_job'.last \in {"ai_error", "non_json"}) =>
       LET svc_cat == qfix_services_cache[Head(rank_job.todo)][rank_job.c]
       IN  /\ rank_job'.errors =
                rank_job.errors + IF rank_job'.last = "ai_error" THEN 1 ELSE 0
           /\ FailureRecords(rank_job'.logged) = FailureRecords(rank_job.logged) + 1
           /\ RankingKey(svc_cat.slug) \in DOMAIN rank_job'.rankings
           /\ rank_job'.rankings[RankingKey(svc_cat.slug)] = <<>>
           /\ rank_job'.pc \in {"cats", "persist"}
           /\ rank_job'.todo = rank_job.todo
    ]_vars

\* C23 witness: a run with one error of the ranking service and one answer
\* that is not JSON has ranked all three pairs
C23_Witness ==
  /\ rank_job.pc = "done"
  /\ rank_job.ranked = 3
  /\ rank_job.errors = 1
  /\ rank_job.logged = [info |-> 4, warning |-> 1, error |-> 0]

(***************************************************************************)
(* Claims about the scoring and the selection of the merge                 *)
(***************************************************************************)
\* the pool of a category after the exclusion pass
PoolAfterExclusion(cat) ==
  IF cat \in DOMAIN top_actions
  THEN SelectSeq(top_actions[cat], LAMBDA a : a.name \notin ExcludedNames(cat))
  ELSE <<>>

\* the candidates collected for a category whose id and name are not in the pool
NewCandidates(cat) ==
  LET pool == PoolAfterExclusion(cat)
  IN  SelectSeq(Injected(product_text, qfix_services)[cat],
                LAMBDA a : \A i \in 1..Len(pool) : pool[i].id # a.id /\ pool[i].name # a.name)

\* pool entries with the scores 10, 9, ..., 1, then the candidates with the
\* scores 7, 5, 3, 1, 1, in the order of insertion
ScoredEntries(cat) ==
  LET pool == PoolAfterExclusion(cat)
      new == NewCandidates(cat)
  IN  [i \in 1..(Len(pool) + Len(new)) |->
         IF i <= Len(pool)
         THEN [score |-> IF i <= 10 THEN 11 - i ELSE 1, a |-> pool[i], injected |-> FALSE]
         ELSE [score |-> <<7, 5, 3, 1, 1, 1, 1, 1, 1, 1>>[i - Len(pool)],
               a |-> new[i - Len(pool)], injected |-> TRUE]]

\* the place of entry i: after every entry of higher score and every earlier
\* entry of the same score
PlaceOf(scored, i) ==
  1 + Cardinality({j \in 1..Len(scored) :
                     \/ scored[j].score > scored[i].score
                     \/ scored[j].score = scored[i].score /\ j < i})

\* C24: for a category with a matching injection rule the output is the 5
\* entries of highest score among the pool after exclusion (scores 10..1 by
\* position) and the new candidates (scores 7, 5, 3, 1, 1 in the order
\* collected), in descending order of score, entries of equal score in the
\* order of insertion: an entry of the pool stands before a candidate of the
\* same score, a candidate after every pool entry of higher score.
C24_ScoredMergeKeepsBestFive ==
  (MergeDone /\ product_text # <<>>) =>
    \A cat \in DOMAIN Injected(product_text, qfix_services) :
      LET scored == ScoredEntries(cat)
          n == IF Len(scored) < 5 THEN Len(scored) ELSE 5
      IN  /\ cat \in DOMAIN merged
          /\ Len(merged[cat]) = n
          /\ \A i \in 1..Len(scored) :
               PlaceOf(scored, i) <= n => merged[cat][PlaceOf(scored, i)] = scored[i].a

\* C24 witness: the fourth pool entry and the first candidate both score 7;
\* the output holds the pool entry fourth and the candidate fifth, and the
\* fifth pool entry is left out
C24_Witness ==
  /\ MergeDone
  /\ product_text # <<>>
  /\ \E cat \in DOMAIN Injected(product_text, qfix_services) :
       /\ Len(PoolAfterExclusion(cat)) >= 5
       /\ NewCandidates(cat) # <<>>
       /\ merged[cat][4] = PoolAfterExclusion(cat)[4]
       /\ merged[cat][5] = NewCandidates(cat)[1]

\* the injection rules with a keyword in product_text
MatchingInjectionRules ==
  {i \in 1..Len(KEYWORD_ACTION_RULES) :
     AnyKeywordIn(KEYWORD_ACTION_RULES[i].keywords, product_text)}

\* the names of the services of the catalog under a known category
ServiceNames ==
  LET all_actions == AllActions(qfix_services)
  IN  {all_actions[k].name : k \in 1..Len(all_actions)}

\* the action definition resolves to a service entry of the catalog
Resolvable(action_def, names) == action_def.name \in names

\* the definition has sub_keywords and one of them is in product_text
SubKeywordsMatch(action_def) ==
  /\ action_def.sub_keywords # <<>>
  /\ AnyKeywordIn(action_def.sub_keywords, product_text)

\* the names a rule contributes: the definitions whose sub_keywords match, in
\* the order of definition, then the default unless it is among them or two
\* are selected already; at most two
ContributionNames(rule) ==
  LET names == ServiceNames
      subs == SelectSeq(rule.actions, LAMBDA a : Resolvable(a, names) /\ SubKeywordsMatch(a))
      dflt == SelectSeq(rule.actions,
                        LAMBDA a : Resolvable(a, names) /\ ~SubKeywordsMatch(a) /\ a.default)
      sub_names == [k \in 1..Len(subs) |-> subs[k].name]
      both == IF /\ dflt # <<>>
                 /\ Len(subs) < 2
                 /\ \A k \in 1..Len(subs) : subs[k].name # dflt[1].name
              THEN Append(sub_names, dflt[1].name)
              ELSE sub_names
  IN  SubSeq(both, 1, IF Len(both) < 2 THEN Len(both) ELSE 2)

NamesOf(actions) == [k \in 1..Len(actions) |-> actions[k].name]

\* C25: every matching injection rule contributes the definitions whose
\* sub_keywords match product_text, in the order of definition, then its
\* default definition if that is not selected by name and fewer than 2 are
\* selected, truncated to 2; where one rule matches for a category whose
\* pool is empty the output of the category is that contribution.
C25_RuleContribution ==
  (MergeDone /\ product_text # <<>>) =>
    /\ LET all_actions == AllActions(qfix_services)
       IN  \A i \in MatchingInjectionRules :
             NamesOf(RuleSelection(KEYWORD_ACTION_RULES[i], product_text, all_actions))
               = ContributionNames(KEYWORD_ACTION_RULES[i])
    /\ \A i \in MatchingInjectionRules :
         LET cat == KEYWORD_ACTION_RULES[i].category
         IN  (/\ PoolAfterExclusion(cat) = <<>>
              /\ \A j \in MatchingInjectionRules : KEYWORD_ACTION_RULES[j].category = cat => j = i)
             => NamesOf(merged[cat]) = ContributionNames(KEYWORD_ACTION_RULES[i])

\* C25 witness: one definition of the only matching rule of a category has a
\* sub-keyword in the text; the rule contributes it and then its default, and
\* with an empty pool that is the output
C25_Witness ==
  /\ MergeDone
  /\ product_text # <<>>
  /\ \E i \in MatchingInjectionRules :
       LET rule == KEYWORD_ACTION_RULES[i]
       IN  /\ Len(SelectSeq(rule.actions,
                            LAMBDA a : Resolvable(a, ServiceNames) /\ SubKeywordsMatch(a))) = 1
           /\ Len(ContributionNames(rule)) = 2
           /\ \A j \in MatchingInjectionRules : KEYWORD_ACTION_RULES[j].category = rule.category => j = i
           /\ PoolAfterExclusion(rule.category) = <<>>
           /\ NamesOf(merged[rule.category]) = ContributionNames(rule)

\* C25 witness of the cap: two definitions have a sub-keyword in the text and
\* the default is left out
C25_WitnessCap ==
  /\ MergeDone
  /\ \E i \in MatchingInjectionRules :
       LET rule == KEYWORD_ACTION_RULES[i]
       IN  /\ Len(SelectSeq(rule.actions,
                            LAMBDA a : Resolvable(a, ServiceNames) /\ SubKeywordsMatch(a))) = 2
           /\ \E k \in 1..Len(rule.actions) : rule.actions[k].default /\ Resolvable(rule.actions[k], ServiceNames)

(***************************************************************************)
(* Claims about the global keyword fallback                                *)
(***************************************************************************)
\* result is what the first rule of the global keyword table, in list order,
\* whose keyword occurs in text gives, and None when no keyword occurs
FirstGlobalKeywordRule(result, text) ==
  LET hits == {i \in 1..Len(KEYWORD_CLOTHING_MAP) : Contains(text, KEYWORD_CLOTHING_MAP[i][1])}
  IN  IF hits = {} THEN result = <<>>
      ELSE \E i \in hits : /\ \A j \in hits : i <= j
                           /\ result = <<KEYWORD_CLOTHING_MAP[i][2]>>

\* the rule tables with an empty global keyword table
RulesWithoutKeywords == [Rules EXCEPT !.KEYWORD_CLOTHING_MAP = <<>>]

\* category_path is empty
PathEmpty(c) == c.path = <<>>

\* the path has a first segment and the global exact map has no entry for it
FirstSegmentUnrecognized(c) ==
  /\ c.path # <<>>
  /\ PathParts(c.path) # <<>>
  /\ PathParts(c.path)[1] \notin DOMAIN CLOTHING_TYPE_MAP

\* C26: with an empty category_path the result is that of the first global
\* keyword rule matching product_name + description, None without a match;
\* with a first segment unknown to the global exact map, where no brand rule
\* decides, it is that of the first global keyword rule matching the
\* lowercased path, None without a match; in every other situation the
\* global keyword table has no part in the result.
C26_GlobalKeywordFallback ==
  clothing_call # <<>> =>
    LET c == clothing_call[1]
        without == map_clothing_type(RulesWithoutKeywords, c.path, c.brand, c.product_name,
                                     c.description)
    IN  /\ PathEmpty(c) =>
             FirstGlobalKeywordRule(c.result, ProductText(c.product_name, c.description))
        /\ (FirstSegmentUnrecognized(c) /\ without = <<>>) =>
             FirstGlobalKeywordRule(c.result, Lower(c.path))
        /\ (~PathEmpty(c) /\ ~FirstSegmentUnrecognized(c)) => c.result = without

\* C26 witness: the path has an unknown first segment and holds the keywords
\* of two global rules; the earlier rule gives the result
C26_Witness ==
  /\ clothing_call # <<>>
  /\ FirstSegmentUnrecognized(clothing_call[1])
  /\ Cardinality({i \in 1..Len(KEYWORD_CLOTHING_MAP) :
                    Contains(Lower(clothing_call[1].path), KEYWORD_CLOTHING_MAP[i][1])}) >= 2
  /\ clothing_call[1].result # <<>>
  /\ clothing_call[1].brand = ""

\* C26 witness for the empty path: the keyword of a global rule occurs in
\* product_name + description and gives the result
C26_WitnessEmptyPath ==
  /\ clothing_call # <<>>
  /\ PathEmpty(clothing_call[1])
  /\ clothing_call[1].result # <<>>

\* C26 witness for the other situations: the first segment is known to the
\* global exact map as a category without a type, a global keyword occurs in
\* the path and the result is None
C26_WitnessKnownSegment ==
  /\ clothing_call # <<>>
  /\ PathParts(clothing_call[1].path) # <<>>
  /\ PathParts(clothing_call[1].path)[1] \in DOMAIN CLOTHING_TYPE_MAP
  /\ clothing_call[1].result = <<>>
  /\ \E i \in 1..Len(KEYWORD_CLOTHING_MAP) :
       Contains(Lower(clothing_call[1].path), KEYWORD_CLOTHING_MAP[i][1])

\* the text before its first comma: a name without its certification suffix
BeforeComma(text) ==
  LET commas == {i \in 1..Len(text) : text[i].k = "comma"}
  IN  IF commas = {} THEN text ELSE SubSeq(text, 1, MinOf(commas) - 1)

\* the text carries a percentage
HasPercentage(text) == \E i \in 1..Len(text) : text[i].k = "pct"

\* C27: map_material looks a material name up after lowercasing it and after
\* trimming the text after a comma, for bare inputs as for percentage-marked
\* ones: a bare text with a suffix after a comma resolves exactly as the text
\* before the comma does.
C27_BareSuffixTrimmed ==
  material_call # <<>> =>
    LET c == material_call[1]
    IN  ~HasPercentage(c.text) =>
          c.result = map_material(Rules, BeforeComma(c.text), c.brand)

\* C27, the percentage-marked half: one percentage, a name, a comma and a
\* suffix of names resolve as the text before the comma does
C27_PercentageSuffixTrimmed ==
  material_call # <<>> =>
    LET c == material_call[1]
    IN  (/\ Len(c.text) >= 2
         /\ c.text[1].k = "pct"
         /\ \A i \in 2..Len(c.text) : c.text[i].k # "pct") =>
          c.result = map_material(Rules, BeforeComma(c.text), c.brand)

\* C27, percentage-marked case reached: "60% Bomull, Foo" resolves as
\* "60% Bomull"
C27_PercentageCase ==
  /\ material_call # <<>>
  /\ material_call[1].text = <<Pct(60), Word("Bomull"), Comma, Word("Foo")>>
  /\ material_call[1].result = "Standard textile"

\* the material names of a valid-material set
MaterialNames(valid) == {valid[i][2] : i \in 1..Len(valid)}

\* the legacy clothing types that have a valid-material set in the legacy
\* catalog
LegacyTypesWithMaterials ==
  {n \in DOMAIN QFIX_CLOTHING_TYPE_IDS_LEGACY :
     QFIX_CLOTHING_TYPE_IDS_LEGACY[n] \in DOMAIN VALID_MATERIAL_IDS_LEGACY}

\* every clothing-type name with a legacy id has a current id
LegacyNamesHaveCurrentId ==
  DOMAIN QFIX_CLOTHING_TYPE_IDS_LEGACY \subseteq DOMAIN QFIX_CLOTHING_TYPE_IDS

\* the legacy call has found its material by name in the legacy valid set of
\* its clothing type
LegacyMaterialValid(legacy) ==
  /\ legacy.qfix_clothing_type_id # <<>>
  /\ legacy.qfix_clothing_type_id[1] \in DOMAIN VALID_MATERIAL_IDS_LEGACY
  /\ legacy.qfix_material \in
       MaterialNames(VALID_MATERIAL_IDS_LEGACY[legacy.qfix_clothing_type_id[1]])

\* C28 as stated: every clothing-type name with a legacy id has a current
\* id, and for every legacy clothing type and every material name valid for
\* it in the legacy catalog, the valid-material set of the current catalog
\* for the type's current id, under every subcategory, holds the same
\* material name.
C28_CurrentSetsCoverLegacyNames ==
  /\ LegacyNamesHaveCurrentId
  /\ \A n \in LegacyTypesWithMaterials, s \in DOMAIN QFIX_SUBCATEGORY_IDS :
       LET id == resolve_clothing_type_id(<<n>>, s)
       IN  /\ id # <<>>
           /\ id[1] \in DOMAIN VALID_MATERIAL_IDS
           /\ MaterialNames(VALID_MATERIAL_IDS_LEGACY[QFIX_CLOTHING_TYPE_IDS_LEGACY[n]])
                \subseteq MaterialNames(VALID_MATERIAL_IDS[id[1]])
  /\ (product_call # <<>> /\ product_call[1].kind = "legacy"
        /\ LegacyMaterialValid(product_call[1].result)) =>
       LET c       == product_call[1]
           current == map_product(Rules, c.product, c.brand)
       IN  /\ current.qfix_clothing_type_id # <<>>
           /\ current.qfix_clothing_type_id[1] \in DOMAIN VALID_MATERIAL_IDS
           /\ c.result.qfix_material \in
                MaterialNames(VALID_MATERIAL_IDS[current.qfix_clothing_type_id[1]])

\* C28 as amended: every clothing-type name with a legacy id has a current
\* id, and every clothing-type id of the legacy valid-material table is an id
\* of the current valid-material table, whose set for that id holds every
\* material of the legacy set under the same material id; so a material the
\* legacy catalog resolves for a product is resolved to the same material id
\* by the current table for the same clothing-type id.
C28_CurrentTablesCoverLegacyIds ==
  /\ LegacyNamesHaveCurrentId
  /\ \A id \in DOMAIN VALID_MATERIAL_IDS_LEGACY :
       /\ id \in DOMAIN VALID_MATERIAL_IDS
       /\ \A i \in 1..Len(VALID_MATERIAL_IDS_LEGACY[id]) :
            \E j \in 1..Len(VALID_MATERIAL_IDS[id]) :
              VALID_MATERIAL_IDS[id][j] = VALID_MATERIAL_IDS_LEGACY[id][i]
  /\ (product_call # <<>> /\ product_call[1].kind = "legacy"
        /\ LegacyMaterialValid(product_call[1].result)) =>
       resolve_material_id(product_call[1].result.qfix_clothing_type_id,
                           product_call[1].result.qfix_material)
         = product_call[1].result.qfix_material_id

\* C28 witness: the legacy catalog resolves "Overall" (legacy id 175) with a
\* material valid for it; the current id of "Overall" is another one
C28_Witness ==
  /\ product_call # <<>>
  /\ product_call[1].kind = "legacy"
  /\ LegacyMaterialValid(product_call[1].result)
  /\ product_call[1].result.qfix_material # "Other/Unsure"
  /\ resolve_clothing_type_id(product_call[1].result.qfix_clothing_type,
                              product_call[1].result.qfix_subcategory)
       # product_call[1].result.qfix_clothing_type_id

\* the cache holds an entry for every key of a single load of the tree
HoldsWholeTree(caches, tree) ==
  \A c \in {"items", "subitems", "services"} :
    DOMAIN SingleLoad(tree)[c] \subseteq DOMAIN caches[c]

\* C29: a reader of the catalog cache never observes a partially populated
\* cache: whenever enrich_qfix performs its reads, under every interleaving
\* of concurrent loads, failing fetches included, the cache is entirely empty
\* or holds every item, subitem and service entry of one complete fetched
\* tree.
C29_ReaderSeesEmptyOrWholeTree ==
  [][\A t \in Loaders :
       EnrichesIn(t) => (CachesEmpty \/ \E tree \in Trees : HoldsWholeTree(Caches, tree))
    ]_vars

\* C29, the reads of a thread whose own load ran to its end: they see a
\* whole tree
C29_OwnLoadSeenWhole ==
  [][\A t \in Loaders :
       (EnrichesIn(t) /\ ~loader[t].failed) => \E tree \in Trees : HoldsWholeTree(Caches, tree)
    ]_vars

\* C29, the case reached: a thread whose fetch failed has read the cache
\* while another thread was in its loops, the items stored and the services
\* not
C29_PartialRead ==
  \E t \in Loaders :
    /\ loader[t].pc = "return"
    /\ loader[t].failed
    /\ qfix_items # <<>>
    /\ qfix_services_cache = <<>>
    /\ "qfix_item" \in DOMAIN loader[t].result[1]
    /\ loader[t].result[1].qfix_services = <<>>

\* the canonical types the four clothing-rule tables name
RuleTargets ==
  {CLOTHING_TYPE_MAP[k][1] : k \in {x \in DOMAIN CLOTHING_TYPE_MAP : CLOTHING_TYPE_MAP[x] # <<>>}}
  \cup UNION {{BRAND_CLOTHING_TYPE_OVERRIDES[b][k][1] :
                 k \in {x \in DOMAIN BRAND_CLOTHING_TYPE_OVERRIDES[b] :
                          BRAND_CLOTHING_TYPE_OVERRIDES[b][x] # <<>>}} :
              b \in DOMAIN BRAND_CLOTHING_TYPE_OVERRIDES}
  \cup UNION {{BRAND_KEYWORD_CLOTHING_OVERRIDES[b][i][2] :
                 i \in 1..Len(BRAND_KEYWORD_CLOTHING_OVERRIDES[b])} :
              b \in DOMAIN BRAND_KEYWORD_CLOTHING_OVERRIDES}
  \cup {KEYWORD_CLOTHING_MAP[i][2] : i \in 1..Len(KEYWORD_CLOTHING_MAP)}

\* the subcategories map_category can answer with
CategoryAnswers == {CATEGORY_MAP[k] : k \in DOMAIN CATEGORY_MAP} \cup {"Women's Clothing"}

\* C30: after any sequence of accepted admin mutations, every non-null
\* canonical clothing type that map_clothing_type returns, for any path,
\* brand, name and description, is a key of the current clothing-type id
\* table, so that the id resolution of map_product gives a clothing type id
\* for it under every subcategory; the rule tables name keys of that table
\* only.
C30_ResolvedTypeHasCurrentId ==
  /\ RuleTargets \subseteq DOMAIN QFIX_CLOTHING_TYPE_IDS
  /\ (clothing_call # <<>> /\ clothing_call[1].result # <<>>) =>
       /\ clothing_call[1].result[1] \in DOMAIN QFIX_CLOTHING_TYPE_IDS
       /\ \A s \in CategoryAnswers :
            resolve_clothing_type_id(clothing_call[1].result, s) # <<>>

\* C30 witness: an admin request has mapped "skjortor" to "Cap", no table
\* names the unknown target "Tie" of the requests, and map_clothing_type
\* answers with the admin's type
C30_Witness ==
  /\ clothing_call # <<>>
  /\ clothing_call[1].brand = ""
  /\ clothing_call[1].path = <<"s", "k", "j", "o", "r", "t", "o", "r">>
  /\ clothing_call[1].result = <<"Cap">>
  /\ Get(CLOTHING_TYPE_MAP, <<"s", "k", "j", "o", "r", "t", "o", "r">>) = <<"Cap">>
  /\ "Tie" \notin RuleTargets

====
